---- MODULE Spec2Model ----
(***************************************************************************)
(* Model of mixer/blender_data: the proxies of bpy.data collections        *)
(* (DatablockCollectionProxy), of collections of datablock references      *)
(* (DatablockRefCollectionProxy), and the proxy state they share           *)
(* (context.proxy_state: datablocks, proxies, unresolved_refs).            *)
(*                                                                         *)
(* Python objects are handles: a datablock is a handle in Ents, a          *)
(* DatablockProxy a handle in Pxs, and the heap maps (ent, prox) hold      *)
(* their fields.  An Optional value is a set with at most one element      *)
(* (None is {}).  A dict is a function whose DOMAIN is its key set.        *)
(***************************************************************************)
EXTENDS Integers, Sequences, FiniteSets, TLC

\* ------------------------------------------------------------------ bounds
MaxEnts == 2
MaxProxies == 2
MaxUuids == 2
MaxActs == 2
MaxOps == 4
MaxReloadOps == 5
MaxRefOps == 5
MaxApplyOps == 3
MaxScenarioOps == 7
MaxLinks == 2
MaxSockets == 1
MaxDeltas == 2

Ents == 1..MaxEnts
Pxs == 1..MaxProxies
Uuids == 1..MaxUuids
Acts == 1..MaxActs

Colls == {"objects", "scenes"}
BaseNames == {"A", "B"}
PlaceholderBase == "_mixer_to_be_removed_"

\* ------------------------------------------------------------------ names
\* A datablock name is a base and the numeric suffix the host appends to
\* keep names unique in a collection: [b |-> "A", n |-> 1] is "A.001".
Name(b) == [b |-> b, n |-> 0]
NoName == [b |-> "", n |-> 0]
PlaceholderName == Name(PlaceholderBase)
Names == {[b |-> b, n |-> n] : b \in BaseNames, n \in 0..MaxEnts}

\* Python's str order on these names: "A" < "A.001" < "B" < "_mixer...".
BaseRank(b) == CASE b = "" -> 0 [] b = "A" -> 1 [] b = "B" -> 2 [] OTHER -> 3
NameLess(x, y) ==
    \/ BaseRank(x.b) < BaseRank(y.b)
    \/ BaseRank(x.b) = BaseRank(y.b) /\ x.n < y.n

RECURSIVE sorted(_)
sorted(S) ==
    IF S = {} THEN <<>>
    ELSE LET m == CHOOSE x \in S : \A y \in S : y = x \/ NameLess(x, y)
         IN <<m>> \o sorted(S \ {m})

\* ------------------------------------------------------------------ dicts
EmptyDict == [k \in {} |-> {}]
Put(d, k, v) == [x \in (DOMAIN d) \cup {k} |-> IF x = k THEN v ELSE d[x]]
Del(d, k) == [x \in (DOMAIN d) \ {k} |-> d[x]]
\* dict.get(k): an Optional
DictGet(d, k) == IF k \in DOMAIN d THEN {d[k]} ELSE {}

Max(S) == CHOOSE x \in S : \A y \in S : y <= x
Min(S) == CHOOSE x \in S : \A y \in S : x <= y
The(S) == CHOOSE x \in S : TRUE

\* ------------------------------------------------------------------ state
VARIABLES
    ent,          \* the host's datablocks: handle -> [st, name, uuid, coll, skip]
    prox,         \* DatablockProxy objects: handle -> [used, uuid, name, coll]
    data,         \* DatablockCollectionProxy._data, one dict per bpy.data collection
    datablocks,   \* context.proxy_state.datablocks : uuid -> datablock
    proxies,      \* context.proxy_state.proxies : uuid -> DatablockProxy
    unresolved,   \* context.proxy_state.unresolved_refs : uuid -> list of deferred actions
    fired,        \* per deferred action, the datablocks it has been run with
    refcoll,      \* the live collection of datablock references (its members, in order)
    refkind,      \* which insertion API the live reference collection has
    rdata,        \* DatablockRefCollectionProxy._data, in insertion order:
                  \* a sequence of [k, uuid, name], k the key of a DatablockRefProxy
    peer,         \* _data of a second DatablockRefCollectionProxy, constructed empty,
                  \* that receives the deltas diff() returns
    nseq,         \* NodeLinksProxy._sequence: a sequence of
                  \* [from_node, from_socket, to_node, to_socket]
    nlinks,       \* node_tree.links of the node tree that proxy is saved into
    camera,       \* the pointer a NonePtrProxy stands for (Scene.camera): an
                  \* Optional datablock
    last,         \* the last call: its name, arguments and outcome
    mirror,       \* per bpy.data collection: whether the snapshot's keys were the live
                  \* uuids when the last call on the proxies returned
    ops,          \* the number of calls and edits so far
    budget        \* the number of calls and edits the behaviour is followed for

vars == <<ent, prox, data, datablocks, proxies, unresolved, fired, refcoll, refkind, rdata,
          peer, nseq, nlinks, camera, last, mirror, ops, budget>>

\* The mutable program state as one value, threaded through the handlers.
State ==
    [ent |-> ent, prox |-> prox, data |-> data, datablocks |-> datablocks,
     proxies |-> proxies, unresolved |-> unresolved, fired |-> fired,
     refcoll |-> refcoll, rdata |-> rdata, peer |-> peer, nseq |-> nseq, nlinks |-> nlinks,
     camera |-> camera]

Step(s) ==
    /\ ops < budget
    /\ ops' = ops + 1
    /\ budget' = budget
    /\ ent' = s.ent
    /\ prox' = s.prox
    /\ data' = s.data
    /\ datablocks' = s.datablocks
    /\ proxies' = s.proxies
    /\ unresolved' = s.unresolved
    /\ fired' = s.fired
    /\ refcoll' = s.refcoll
    /\ rdata' = s.rdata
    /\ peer' = s.peer
    /\ nseq' = s.nseq
    /\ nlinks' = s.nlinks
    /\ camera' = s.camera
    /\ refkind' = refkind

\* a call on the proxies
Commit(s) ==
    /\ Step(s)
    /\ mirror' = [c \in Colls |->
                    DOMAIN s.data[c] = UNION {s.ent[x].uuid :
                        x \in {y \in DOMAIN s.ent : s.ent[y].st = "live" /\ s.ent[y].coll = c}}]

\* an edit of the live graph by the user
Edit(s) == Step(s) /\ mirror' = mirror

FreeEnt == [st |-> "free", name |-> NoName, uuid |-> {}, coll |-> "", skip |-> FALSE]
DeadEnt == [st |-> "dead", name |-> NoName, uuid |-> {}, coll |-> "", skip |-> FALSE]
FreePx == [used |-> FALSE, uuid |-> {}, name |-> NoName, coll |-> ""]

\* ------------------------------------------------------------------ host
\* bpy.data.<c>: the live datablocks of collection c
Members(e, c) == {x \in DOMAIN e : e[x].st = "live" /\ e[x].coll = c}
\* collection.get(name): an Optional
CollGet(e, c, nm) == {x \in Members(e, c) : e[x].name = nm}
NameTaken(e, c, nm) == CollGet(e, c, nm) # {}
\* the host keeps names unique in a collection by appending a numeric suffix
UniqueName(e, c, nm) ==
    IF ~NameTaken(e, c, nm) THEN nm
    ELSE [b |-> nm.b,
          n |-> Min({k \in 1..(MaxEnts + 1) : ~NameTaken(e, c, [b |-> nm.b, n |-> k])})]
FreeEnts(e) == {x \in DOMAIN e : e[x].st = "free"}
FreePxs(p) == {x \in Pxs : ~p[x].used}
\* the uuids carried by live datablocks of collection c
LiveUuids(e, c) == UNION {e[x].uuid : x \in Members(e, c)}

\* ------------------------------------------------------------------ uuids
\* every uuid seen so far, anywhere: uuid4 never returns one of them
UsedUuids(s) ==
    UNION {s.ent[x].uuid : x \in DOMAIN s.ent}
    \cup UNION {s.prox[p].uuid : p \in Pxs}
    \cup DOMAIN s.datablocks \cup DOMAIN s.proxies \cup DOMAIN s.unresolved
    \cup {s.rdata[i].k : i \in 1..Len(s.rdata)}
    \cup {s.rdata[i].uuid : i \in 1..Len(s.rdata)}
    \cup UNION {DOMAIN s.data[c] : c \in Colls}
CanMint(s, n) == Cardinality(Uuids \ UsedUuids(s)) >= n
\* the uuids a message from a peer can carry, up to the renaming of the uuids
\* that this session has never seen: every known one and one unknown
PeerUuids(s) ==
    LET unseen == Uuids \ UsedUuids(s) IN
    UsedUuids(s) \cup (IF unseen = {} THEN {} ELSE {Min(unseen)})

\* ensure_uuid(datablock): the datablock's uuid, minted first if it has none
ensure_uuid(s, x) ==
    IF s.ent[x].uuid # {} THEN s
    ELSE [s EXCEPT !.ent[x].uuid = {Min(Uuids \ UsedUuids(s))}]

\* ------------------------------------------------------------------ unresolved_refs
\* add_datablock_ref_element taking every collection for one without an API
add_datablock_ref_element_warns(kind, coll, x) == coll

\* add_datablock_ref_element(collection, datablock): link() for the link
\* collections, append() for IDMaterials, a warning and nothing else otherwise
add_datablock_ref_element(kind, coll, x) ==
    CASE kind = "link" -> IF \E i \in 1..Len(coll) : coll[i] = x THEN coll ELSE Append(coll, x)
      [] kind = "append" -> Append(coll, x)
      [] OTHER -> coll

\* one deferred action: functools.partial(add_datablock_ref_element, collection)
RunDeferred(s, kind, a, x) ==
    [s EXCEPT !.fired[a] = Append(@, x),
              !.refcoll = add_datablock_ref_element(kind, s.refcoll, x)]

RECURSIVE RunAll(_, _, _, _)
RunAll(s, kind, as, x) ==
    IF as = <<>> THEN s
    ELSE RunAll(RunDeferred(s, kind, Head(as), x), kind, Tail(as), x)

\* unresolved_refs.resolve(uuid, datablock): run, in registration order, every
\* action deferred for uuid, and clear them
UnresolvedResolve(s, kind, u, x) ==
    IF u \in DOMAIN s.unresolved
    THEN [RunAll(s, kind, s.unresolved[u], x) EXCEPT !.unresolved = Del(s.unresolved, u)]
    ELSE s

\* deferred actions registered so far
Registered(s) ==
    {a \in Acts : s.fired[a] # <<>>
                  \/ \E u \in DOMAIN s.unresolved :
                        \E i \in 1..Len(s.unresolved[u]) : s.unresolved[u][i] = a}
CanDefer(s, n) == Cardinality(Acts \ Registered(s)) >= n

\* unresolved_refs.append(uuid, action): run the action at once when uuid is
\* registered, defer it otherwise
UnresolvedAppend(s, kind, u) ==
    LET a == Min(Acts \ Registered(s)) IN
    IF u \in DOMAIN s.datablocks
    THEN RunDeferred(s, kind, a, s.datablocks[u])
    ELSE [s EXCEPT !.unresolved =
            Put(@, u, (IF u \in DOMAIN @ THEN @[u] ELSE <<>>) \o <<a>>)]

\* ------------------------------------------------------------------ host edits
\* collection.new(name): a new live datablock, its name made unique
HostNew(s, c, nm, skip) ==
    LET x == Min(FreeEnts(s.ent)) IN
    [s |-> [s EXCEPT !.ent[x] = [st |-> "live", name |-> UniqueName(s.ent, c, nm),
                                  uuid |-> {}, coll |-> c, skip |-> skip]],
     id |-> x]

RemoveMember(coll, x) == SelectSeq(coll, LAMBDA y : y # x)

\* collection.remove(datablock): the datablock is destroyed, and the host
\* drops it from the collections that reference it
HostRemove(s, x) ==
    [s EXCEPT !.ent[x] = DeadEnt, !.refcoll = RemoveMember(@, x),
              !.camera = @ \ {x}]

\* datablock.name = nm. When another datablock of the collection has the name,
\* the host appends a suffix, to this datablock's name or (push) to the other's.
HostRename(s, x, nm, push) ==
    LET c == s.ent[x].coll
        others == CollGet(s.ent, c, nm) \ {x}
    IN  IF others = {} THEN [s EXCEPT !.ent[x].name = nm]
        ELSE IF push
        THEN LET y == The(others)
                 taken == [s.ent EXCEPT ![x].name = nm]
             IN  [s EXCEPT !.ent = [taken EXCEPT ![y].name =
                                        UniqueName([taken EXCEPT ![y].name = NoName], c, nm)]]
        ELSE [s EXCEPT !.ent[x].name = UniqueName(s.ent, c, nm)]

\* ------------------------------------------------------------------ DatablockProxy
\* DatablockProxy.make(id_).load(id_, name, ...): a new proxy of the datablock
LoadProxy(s, x, nm, c) ==
    LET p == Min(FreePxs(s.prox)) IN
    [s |-> [s EXCEPT !.prox[p] = [used |-> TRUE, uuid |-> s.ent[x].uuid,
                                   name |-> nm, coll |-> c]],
     px |-> p]

\* a DatablockProxy received from a peer
ReceiveProxy(s, u, nm, c) ==
    LET p == Min(FreePxs(s.prox)) IN
    [s |-> [s EXCEPT !.prox[p] = [used |-> TRUE, uuid |-> {u}, name |-> nm, coll |-> c]],
     px |-> p]

\* bpy_data_ctor(collection_name, proxy, context): collection.new(name), or None
\* when the host refuses (the RuntimeError / TypeError branches)
bpy_data_ctor(s, c, p, hostFails) ==
    IF hostFails THEN [s |-> s, id |-> {}]
    ELSE LET r == HostNew(s, c, s.prox[p].name, FALSE) IN [s |-> r.s, id |-> {r.id}]

\* DatablockProxy.create_standalone_datablock(context): instantiate through
\* bpy_data_ctor and give the datablock the proxy's uuid
create_standalone_datablock(s, p, hostFails) ==
    LET r == bpy_data_ctor(s, s.prox[p].coll, p, hostFails) IN
    IF r.id = {} THEN [s |-> r.s, id |-> {}]
    ELSE [s |-> [r.s EXCEPT !.ent[The(r.id)].uuid = s.prox[p].uuid], id |-> r.id]

\* mixer.blender_client.scene.delete_scene(scene)
delete_scene(s, x) == HostRemove(s, x)

\* ------------------------------------------------------------------ DatablockCollectionProxy
\* the scenes branch of create_datablock: remove the scene left over from
\* clear_scene_content() when exactly it and one other scene exist
RemovePlaceholder(s, p) ==
    LET ph == CollGet(s.ent, "scenes", PlaceholderName) IN
    IF s.prox[p].coll = "scenes" /\ Cardinality(Members(s.ent, "scenes")) = 2 /\ ph # {}
    THEN delete_scene(s, The(ph))
    ELSE s

\* create_datablock registering the datablock and not the proxy
RegisterCreated_without_proxy(s, c, u, p, x) ==
    [s EXCEPT !.data[c] = Put(@, u, p),
              !.datablocks = Put(@, u, x)]

\* the registration in create_datablock: snapshot, datablocks, proxies
RegisterCreated(s, c, u, p, x) ==
    [s EXCEPT !.data[c] = Put(@, u, p),
              !.datablocks = Put(@, u, x),
              !.proxies = Put(@, u, p)]

\* create_datablock without the call of unresolved_refs.resolve
ResolveCreated_omitted(s, kind, u, x) == s

\* the end of create_datablock: resolve the references waiting for uuid
ResolveCreated(s, kind, u, x) == UnresolvedResolve(s, kind, u, x)

\* create_datablock testing "if not datablock" after the registration of the proxy
create_datablock_late_test(s, kind, c, p, hostFails) ==
    LET r == create_standalone_datablock(s, p, hostFails)
        s1 == RemovePlaceholder(r.s, p)
        u == The(s.prox[p].uuid)
    IN  IF r.id = {}
        THEN [s |-> [s1 EXCEPT !.data[c] = Put(@, u, p), !.proxies = Put(@, u, p)], ret |-> {}]
        ELSE [s |-> ResolveCreated(RegisterCreated(s1, c, u, p, The(r.id)), kind, u, The(r.id)),
              ret |-> r.id]

\* DatablockCollectionProxy.create_datablock(incoming_proxy, context), on the
\* collection proxy c; returns the datablock, or None
create_datablock(s, kind, c, p, hostFails) ==
    LET r == create_standalone_datablock(s, p, hostFails)
        s1 == RemovePlaceholder(r.s, p)
    IN  IF r.id = {} THEN [s |-> s1, ret |-> {}]
        ELSE LET u == The(s.prox[p].uuid)
                 x == The(r.id)
             IN  [s |-> ResolveCreated(RegisterCreated(s1, c, u, p, x), kind, u, x),
                  ret |-> {x}]

\* DatablockProxy.update_standalone_datablock(existing_id, delta, context): the
\* datablock after the update. A morph (pre_save_id changing Light.type) makes
\* the host replace the datablock by a new one of the same name and uuid.
update_standalone_datablock(s, x, morph) ==
    IF morph
    THEN LET y == Min(FreeEnts(s.ent)) IN
         [s |-> [s EXCEPT !.ent[y] = s.ent[x], !.ent[x] = DeadEnt,
                          !.refcoll = [i \in 1..Len(@) |-> IF @[i] = x THEN y ELSE @[i]]],
          id |-> y]
    ELSE [s |-> s, id |-> x]

\* update_datablock without the repointing
Repoint_omitted(s, u, existing, id) == s

\* the repointing at the end of update_datablock
Repoint(s, u, existing, id) ==
    IF existing # id THEN [s EXCEPT !.datablocks = Put(@, u, id)] ELSE s

\* update_datablock without the test of a missing proxy: proxy.mixer_uuid() raises
update_datablock_no_proxy_test(s, u, morph) ==
    IF u \notin DOMAIN s.proxies THEN [s |-> s, ret |-> {}, out |-> "raised"]
    ELSE IF DictGet(s.datablocks, u) = {} THEN [s |-> s, ret |-> {}, out |-> "missing_datablock"]
    ELSE LET existing == s.datablocks[u] IN
         IF s.ent[existing].st # "live" THEN [s |-> s, ret |-> {}, out |-> "raised"]
         ELSE LET r == update_standalone_datablock(s, existing, morph) IN
              [s |-> Repoint(r.s, u, existing, r.id), ret |-> {r.id}, out |-> "updated"]

\* DatablockCollectionProxy.update_datablock(delta, context); u is the uuid of
\* delta.value. out is "missing_proxy", "mismatch", "missing_datablock",
\* "raised" (the registered datablock is a dangling reference) or "updated".
update_datablock(s, u, morph) ==
    IF u \notin DOMAIN s.proxies THEN [s |-> s, ret |-> {}, out |-> "missing_proxy"]
    ELSE IF s.prox[s.proxies[u]].uuid # {u} THEN [s |-> s, ret |-> {}, out |-> "mismatch"]
    ELSE IF DictGet(s.datablocks, u) = {} THEN [s |-> s, ret |-> {}, out |-> "missing_datablock"]
    ELSE LET existing == s.datablocks[u] IN
         IF s.ent[existing].st # "live" THEN [s |-> s, ret |-> {}, out |-> "raised"]
         ELSE LET r == update_standalone_datablock(s, existing, morph) IN
              [s |-> Repoint(r.s, u, existing, r.id), ret |-> {r.id}, out |-> "updated"]

\* remove_datablock without the "except ReferenceError" clause
remove_datablock_uncaught(s, c, p, x, also) ==
    LET u == The(s.prox[p].uuid) IN
    IF s.ent[x].st # "live" THEN [s |-> s, raised |-> TRUE]
    ELSE IF u \in DOMAIN s.data[c]
    THEN [s |-> [HostRemove(s, x) EXCEPT !.data[c] = Del(@, u)], raised |-> FALSE]
    ELSE [s |-> HostRemove(s, x), raised |-> TRUE]

\* DatablockCollectionProxy.remove_datablock(proxy, datablock), on the collection
\* proxy c. also: the datablocks the host destroys along with this one.
\* A dangling datablock raises ReferenceError, which is caught; a uuid that is
\* not in _data raises KeyError, which is not.
remove_datablock(s, c, p, x, also) ==
    LET RECURSIVE RemoveAll(_, _)
        RemoveAll(t, S) == IF S = {} THEN t
                           ELSE RemoveAll(HostRemove(t, Min(S)), S \ {Min(S)})
        s1 == IF s.ent[x].st = "live" THEN RemoveAll(HostRemove(s, x), also) ELSE s
        u == The(s.prox[p].uuid)
    IN  IF u \in DOMAIN s1.data[c]
        THEN [s |-> [s1 EXCEPT !.data[c] = Del(@, u)], raised |-> FALSE]
        ELSE [s |-> s1, raised |-> TRUE]

\* rename_datablock without proxy.rename(new_name)
rename_datablock_keeps_cached_name(s, p, nm, x, push) ==
    IF s.ent[x].st = "live"
    THEN [s |-> HostRename(s, x, nm, push), raised |-> FALSE]
    ELSE [s |-> s, raised |-> TRUE]

\* DatablockCollectionProxy.rename_datablock(proxy, new_name, datablock)
rename_datablock(s, p, nm, x, push) ==
    LET s1 == [s EXCEPT !.prox[p].name = nm] IN
    IF s.ent[x].st = "live"
    THEN [s |-> HostRename(s1, x, nm, push), raised |-> FALSE]
    ELSE [s |-> s1, raised |-> TRUE]

\* a filter that excludes nothing
skip_bpy_data_item_never(s, x) == FALSE

\* skip_bpy_data_item(collection_name, item)
skip_bpy_data_item(s, x) == s.ent[x].skip

\* DatablockCollectionProxy.load(bl_collection, key, context), on collection c
RECURSIVE LoadItems(_, _, _)
LoadItems(s, c, nms) ==
    IF nms = <<>> THEN s
    ELSE LET x == The(CollGet(s.ent, c, Head(nms))) IN
         IF skip_bpy_data_item(s, x) THEN LoadItems(s, c, Tail(nms))
         ELSE LET s1 == ensure_uuid(s, x)
                  r == LoadProxy(s1, x, Head(nms), c)
              IN  LoadItems([r.s EXCEPT !.data[c] = Put(@, The(s1.ent[x].uuid), r.px)],
                            c, Tail(nms))

\* load() that gives a uuid to every datablock, whether it has one or not
load_mints_again(s, c) ==
    LoadItems([s EXCEPT !.ent = [x \in DOMAIN s.ent |->
                    IF x \in Members(s.ent, c) /\ ~s.ent[x].skip
                    THEN [s.ent[x] EXCEPT !.uuid = {}] ELSE s.ent[x]]],
              c, sorted({s.ent[x].name : x \in Members(s.ent, c)}))

load(s, c) == LoadItems(s, c, sorted({s.ent[x].name : x \in Members(s.ent, c)}))

\* write_attribute(target, k, v, context) for a DatablockProxy v: the fields
\* the proxy holds are written onto the datablock registered under k
write_attribute(s, k, p) ==
    LET x == DictGet(s.datablocks, k) IN
    IF x # {} /\ s.ent[The(x)].st = "live" /\ s.ent[The(x)].name # s.prox[p].name
    THEN HostRename(s, The(x), s.prox[p].name, FALSE)
    ELSE s

RECURSIVE SaveItems(_, _, _)
SaveItems(s, c, ks) ==
    IF ks = {} THEN s
    ELSE SaveItems(write_attribute(s, Min(ks), s.data[c][Min(ks)]), c, ks \ {Min(ks)})

\* save() that does not test whether parent has the attribute
save_target_unchecked(s, c, present) ==
    IF DOMAIN s.data[c] = {} THEN s
    ELSE SaveItems(s, c, DOMAIN s.data[c])

\* DatablockCollectionProxy.save(parent, key, context), of the proxy of
\* collection c; present: parent has the attribute key
save(s, c, present) ==
    IF DOMAIN s.data[c] = {} THEN s
    ELSE IF ~present THEN s
    ELSE SaveItems(s, c, DOMAIN s.data[c])

\* ------------------------------------------------------------------ update()
EmptyChangeset == [creations |-> <<>>, removals |-> <<>>, renames |-> <<>>]

\* one pass of the loop over added_names; acc is [s, cs, raised]. failing: the
\* names whose DatablockProxy.load raises (MaxDepthExceeded or another Exception)
UpdateAdd(acc, c, nm, failing) ==
    LET found == CollGet(acc.s.ent, c, nm) IN
    IF found = {} THEN acc
    ELSE LET x == The(found)
             s1 == ensure_uuid(acc.s, x)
             u == The(s1.ent[x].uuid)
             s2 == [s1 EXCEPT !.datablocks = Put(@, u, x)]
         IN  IF nm \in failing THEN [acc EXCEPT !.s = s2]
             ELSE LET r == LoadProxy(s2, x, nm, c) IN
                  [acc EXCEPT !.s = [r.s EXCEPT !.proxies = Put(@, u, r.px),
                                                !.data[c] = Put(@, u, r.px)],
                              !.cs.creations = Append(@, r.px)]

\* the removal pass without "del self._data[uuid]"
UpdateRemove_keeps_snapshot(acc, c, p) ==
    LET u == The(acc.s.prox[p].uuid)
        a1 == [acc EXCEPT !.cs.removals = Append(@, <<u, acc.s.prox[p].coll, p>>)]
    IN  IF u \notin DOMAIN acc.s.datablocks \/ u \notin DOMAIN acc.s.proxies THEN a1
        ELSE [a1 EXCEPT !.s.proxies = Del(@, u), !.s.datablocks = Del(@, u)]

\* the removal pass appending to changeset.removals after the deletions
UpdateRemove_reports_last(acc, c, p) ==
    LET u == The(acc.s.prox[p].uuid) IN
    IF u \notin DOMAIN acc.s.data[c] THEN acc
    ELSE LET a2 == [acc EXCEPT !.s.data[c] = Del(@, u)] IN
         IF u \notin DOMAIN acc.s.datablocks THEN a2
         ELSE IF u \notin DOMAIN acc.s.proxies THEN a2
         ELSE [a2 EXCEPT !.s.proxies = Del(@, u), !.s.datablocks = Del(@, u),
                         !.cs.removals = Append(@, <<u, acc.s.prox[p].coll, p>>)]

\* one pass of the loop over diff.items_removed: the KeyError of a del or of
\* datablocks[uuid] ends the pass where it is raised
UpdateRemove(acc, c, p) ==
    LET u == The(acc.s.prox[p].uuid)
        a1 == [acc EXCEPT !.cs.removals = Append(@, <<u, acc.s.prox[p].coll, p>>)]
    IN  IF u \notin DOMAIN acc.s.data[c] THEN a1
        ELSE LET a2 == [a1 EXCEPT !.s.data[c] = Del(@, u)] IN
             IF u \notin DOMAIN acc.s.datablocks THEN a2
             ELSE IF u \notin DOMAIN acc.s.proxies THEN a2
             ELSE [a2 EXCEPT !.s.proxies = Del(@, u), !.s.datablocks = Del(@, u)]

\* the rename pass dropping an entry whose datablock is not the registered one
UpdateRename_skips_mismatch(acc, p, nm) ==
    LET u == The(acc.s.prox[p].uuid) IN
    IF acc.raised THEN acc
    ELSE IF CollGet(acc.s.ent, acc.s.prox[p].coll, nm) = {} \/ u \notin DOMAIN acc.s.datablocks
    THEN [acc EXCEPT !.raised = TRUE]
    ELSE IF CollGet(acc.s.ent, acc.s.prox[p].coll, nm) # {acc.s.datablocks[u]} THEN acc
    ELSE [acc EXCEPT !.cs.renames = Append(@, <<u, acc.s.prox[p].name, nm, p>>),
                     !.s.prox[p].name = nm]

\* one pass of the loop over diff.items_renamed: proxy.collection[new_name] and
\* datablocks[uuid] raise KeyError, which nothing catches
UpdateRename(acc, p, nm) ==
    LET u == The(acc.s.prox[p].uuid) IN
    IF acc.raised THEN acc
    ELSE IF CollGet(acc.s.ent, acc.s.prox[p].coll, nm) = {} \/ u \notin DOMAIN acc.s.datablocks
    THEN [acc EXCEPT !.raised = TRUE]
    ELSE [acc EXCEPT !.cs.renames = Append(@, <<u, acc.s.prox[p].name, nm, p>>),
                     !.s.prox[p].name = nm]

\* the loop over added_names ending at the first addition that fails
RECURSIVE UpdateAdds_aborts(_, _, _, _)
UpdateAdds_aborts(acc, c, nms, failing) ==
    IF nms = <<>> THEN acc
    ELSE IF Head(nms) \in failing \/ CollGet(acc.s.ent, c, Head(nms)) = {}
    THEN UpdateAdd(acc, c, Head(nms), failing)
    ELSE UpdateAdds_aborts(UpdateAdd(acc, c, Head(nms), failing), c, Tail(nms), failing)

RECURSIVE UpdateAdds(_, _, _, _)
UpdateAdds(acc, c, nms, failing) ==
    IF nms = <<>> THEN acc
    ELSE UpdateAdds(UpdateAdd(acc, c, Head(nms), failing), c, Tail(nms), failing)

RECURSIVE UpdateRemoves(_, _, _)
UpdateRemoves(acc, c, ps) ==
    IF ps = <<>> THEN acc
    ELSE UpdateRemoves(UpdateRemove(acc, c, Head(ps)), c, Tail(ps))

\* the rename pass recording the first observed rename only
UpdateRenames_first_only(acc, rs) ==
    IF rs = <<>> THEN acc ELSE UpdateRename(acc, Head(rs)[1], Head(rs)[2])

RECURSIVE UpdateRenames(_, _)
UpdateRenames(acc, rs) ==
    IF rs = <<>> THEN acc
    ELSE UpdateRenames(UpdateRename(acc, Head(rs)[1], Head(rs)[2]), Tail(rs))

Range(sq) == {sq[i] : i \in 1..Len(sq)}
\* the additions walked as the diff lists them
added_names_as_listed(diff) == diff.items_added

\* the order in which update() walks diff.items_added
added_names(diff) == sorted(Range(diff.items_added))

\* update() walking diff.items_removed from its last entry to its first
update_removals_reversed(s, c, diff, failing) ==
    UpdateRenames(
        UpdateRemoves(
            UpdateAdds([s |-> s, cs |-> EmptyChangeset, raised |-> FALSE],
                       c, added_names(diff), failing),
            c, [i \in 1..Len(diff.items_removed) |->
                    diff.items_removed[Len(diff.items_removed) + 1 - i]]),
        diff.items_renamed)

\* DatablockCollectionProxy.update(diff, context), on the collection proxy c:
\* [s, cs, raised], cs the Changeset (returned unless raised)
update(s, c, diff, failing) ==
    UpdateRenames(
        UpdateRemoves(
            UpdateAdds([s |-> s, cs |-> EmptyChangeset, raised |-> FALSE],
                       c, added_names(diff), failing),
            c, diff.items_removed),
        diff.items_renamed)

\* ------------------------------------------------------------------ the differ
\* BpyPropCollectionDiff.diff: the live collection against the tracked uuids
ExactAdded(s, c) ==
    {s.ent[x].name : x \in {y \in Members(s.ent, c) :
        ~s.ent[y].skip /\ (s.ent[y].uuid = {} \/ s.ent[y].uuid \cap DOMAIN s.data[c] = {})}}
ExactRemoved(s, c) ==
    {s.data[c][u] : u \in (DOMAIN s.data[c]) \ LiveUuids(s.ent, c)}
ExactRenamed(s, c) ==
    {pr \in Pxs \X (Names \cup {PlaceholderName}) :
        \E u \in DOMAIN s.data[c] :
            /\ s.data[c][u] = pr[1]
            /\ s.prox[pr[1]].name # pr[2]
            /\ \E x \in Members(s.ent, c) : s.ent[x].uuid = {u} /\ s.ent[x].name = pr[2]}

Perms(S) == {sq \in [1..Cardinality(S) -> S] : \A i, j \in 1..Cardinality(S) : sq[i] = sq[j] => i = j}
AtMostOne(S) == {{}} \cup {{x} : x \in S}

\* ------------------------------------------------------------------ DatablockRefCollectionProxy
\* _data is a dict in insertion order
RKeys(rd) == {rd[i].k : i \in 1..Len(rd)}
\* a dict that stores a value again under a key it has
RPut_appends(rd, k, v) == Append(rd, v)
RPut(rd, k, v) ==
    IF k \in RKeys(rd) THEN [i \in 1..Len(rd) |-> IF rd[i].k = k THEN v ELSE rd[i]]
    ELSE Append(rd, v)
RDel(rd, k) == SelectSeq(rd, LAMBDA r : r.k # k)
RefProxy(k, u, nm) == [k |-> k, uuid |-> u, name |-> nm]

\* a None item of the live collection (an empty slot of an IDMaterials)
NoneRef == 0

\* the uuids of the members of the live reference collection that are not None
MemberUuids(e, coll) ==
    UNION {e[x].uuid : x \in {coll[i] : i \in 1..Len(coll)} \ {NoneRef}}
RefOf(rd, k) == rd[CHOOSE i \in 1..Len(rd) : rd[i].k = k]

\* load() reading item.mixer_uuid of every item, None or not
RefLoadItem_none_unchecked(acc, item) ==
    IF acc.raised THEN acc
    ELSE IF item = NoneRef THEN [acc EXCEPT !.raised = TRUE]
    ELSE LET u == The(acc.s.ent[item].uuid) IN
         [acc EXCEPT !.s.rdata = RPut(@, u, RefProxy(u, u, acc.s.ent[item].name))]

\* one pass of the loop of load() over bl_collection; acc is [s, raised]
RefLoadItem(acc, item) ==
    IF acc.raised THEN acc
    ELSE IF item # NoneRef
    THEN LET u == The(acc.s.ent[item].uuid) IN
         [acc EXCEPT !.s.rdata = RPut(@, u, RefProxy(u, u, acc.s.ent[item].name))]
    ELSE acc

RECURSIVE RefLoadItems(_, _)
RefLoadItems(acc, items) ==
    IF items = <<>> THEN acc
    ELSE RefLoadItems(RefLoadItem(acc, Head(items)), Tail(items))

\* DatablockRefCollectionProxy.load(bl_collection, key, context)
RefCollLoad(s) == RefLoadItems([s |-> s, raised |-> FALSE], s.refcoll)

\* DatablockRefProxy.target(context): the registered datablock, an Optional
RefTarget(s, ref) == DictGet(s.datablocks, ref.uuid)

\* the host's link(datablock) / append(datablock) on a destroyed datablock
\* raises ReferenceError
HostInsertRaises(s, kind, x) == kind \in {"link", "append"} /\ s.ent[x].st # "live"

\* save() deferring every reference, resolved or not
SaveRef_always_defers(acc, kind, ref) ==
    IF acc.raised THEN acc
    ELSE [acc EXCEPT !.s.unresolved =
            Put(@, ref.uuid, (IF ref.uuid \in DOMAIN @ THEN @[ref.uuid] ELSE <<>>)
                              \o <<Min(Acts \ Registered(acc.s))>>)]

\* save() dropping a reference whose target does not resolve
SaveRef_skips_unresolved(acc, kind, ref) ==
    LET d == RefTarget(acc.s, ref) IN
    IF acc.raised THEN acc
    ELSE IF d # {}
    THEN IF HostInsertRaises(acc.s, kind, The(d)) THEN [acc EXCEPT !.raised = TRUE]
         ELSE [acc EXCEPT !.s.refcoll = add_datablock_ref_element(kind, @, The(d))]
    ELSE acc

\* one pass of the loop of save(); acc is [s, raised]
SaveRef(acc, kind, ref) ==
    LET d == RefTarget(acc.s, ref) IN
    IF acc.raised THEN acc
    ELSE IF d # {}
    THEN IF HostInsertRaises(acc.s, kind, The(d)) THEN [acc EXCEPT !.raised = TRUE]
         ELSE [acc EXCEPT !.s.refcoll = add_datablock_ref_element(kind, @, The(d))]
    ELSE [acc EXCEPT !.s = UnresolvedAppend(acc.s, kind, ref.uuid)]

RECURSIVE SaveRefs(_, _, _)
SaveRefs(acc, kind, refs) ==
    IF refs = <<>> THEN acc
    ELSE SaveRefs(SaveRef(acc, kind, Head(refs)), kind, Tail(refs))

\* DatablockRefCollectionProxy.save(parent, key, context); present: parent has
\* the attribute key
RefCollSave(s, kind, present) ==
    IF s.rdata = <<>> \/ ~present THEN [s |-> s, raised |-> FALSE]
    ELSE SaveRefs([s |-> s, raised |-> FALSE], kind, s.rdata)

\* collection.link(datablock) / collection.unlink(datablock) in apply(): only
\* the link collections have them, and a destroyed datablock raises
HostLinkRaises(s, kind, x) == kind # "link" \/ s.ent[x].st # "live"

\* apply() whose deletions unlink the datablock and keep the proxy's entry
ApplyRefDelta_unlink_only(s, kind, d, to_blender) ==
    IF d.tag \notin {"add", "del"} THEN s
    ELSE IF ~d.ref THEN s
    ELSE LET x == DictGet(s.datablocks, d.uuid)
             raises == to_blender /\ x # {} /\ HostLinkRaises(s, kind, The(x))
             s1 == IF to_blender /\ x # {} /\ ~raises
                   THEN IF d.tag = "add"
                        THEN [s EXCEPT !.refcoll = add_datablock_ref_element("link", @, The(x))]
                        ELSE [s EXCEPT !.refcoll = RemoveMember(@, The(x))]
                   ELSE s
         IN  IF raises THEN s
             ELSE IF d.tag = "add"
             THEN [s1 EXCEPT !.rdata = RPut(@, d.k, RefProxy(d.k, d.uuid, d.name))]
             ELSE s1

\* apply() that links and unlinks whatever to_blender is
ApplyRefDelta_always_to_blender(s, kind, d, to_blender) ==
    IF d.tag \notin {"add", "del"} THEN s
    ELSE IF ~d.ref THEN s
    ELSE LET x == DictGet(s.datablocks, d.uuid)
             raises == x # {} /\ HostLinkRaises(s, kind, The(x))
             s1 == IF x # {} /\ ~raises
                   THEN IF d.tag = "add"
                        THEN [s EXCEPT !.refcoll = add_datablock_ref_element("link", @, The(x))]
                        ELSE [s EXCEPT !.refcoll = RemoveMember(@, The(x))]
                   ELSE s
         IN  IF raises THEN s
             ELSE IF d.tag = "add"
             THEN [s1 EXCEPT !.rdata = RPut(@, d.k, RefProxy(d.k, d.uuid, d.name))]
             ELSE IF d.k \in RKeys(s1.rdata) THEN [s1 EXCEPT !.rdata = RDel(@, d.k)]
             ELSE s1

\* apply() taking every delta that is not a deletion for an addition
ApplyRefDelta_update_adds(s, kind, d, to_blender) ==
    IF ~d.ref THEN s
    ELSE LET x == DictGet(s.datablocks, d.uuid)
             raises == to_blender /\ x # {} /\ HostLinkRaises(s, kind, The(x))
             s1 == IF to_blender /\ x # {} /\ ~raises
                   THEN IF d.tag # "del"
                        THEN [s EXCEPT !.refcoll = add_datablock_ref_element("link", @, The(x))]
                        ELSE [s EXCEPT !.refcoll = RemoveMember(@, The(x))]
                   ELSE s
         IN  IF raises THEN s
             ELSE IF d.tag # "del"
             THEN [s1 EXCEPT !.rdata = RPut(@, d.k, RefProxy(d.k, d.uuid, d.name))]
             ELSE IF d.k \in RKeys(s1.rdata) THEN [s1 EXCEPT !.rdata = RDel(@, d.k)]
             ELSE s1

\* one pass of the loop of apply() over collection_update._data; d is
\* [k, tag, ref, uuid, name]: the key, the Delta class, whether its value is a
\* DatablockRefProxy, and that proxy's uuid and debug name
ApplyRefDelta(s, kind, d, to_blender) ==
    IF d.tag \notin {"add", "del"} THEN s
    ELSE IF ~d.ref THEN s
    ELSE LET x == DictGet(s.datablocks, d.uuid)
             raises == to_blender /\ x # {} /\ HostLinkRaises(s, kind, The(x))
             s1 == IF to_blender /\ x # {} /\ ~raises
                   THEN IF d.tag = "add"
                        THEN [s EXCEPT !.refcoll = add_datablock_ref_element("link", @, The(x))]
                        ELSE [s EXCEPT !.refcoll = RemoveMember(@, The(x))]
                   ELSE s
         IN  IF raises THEN s
             ELSE IF d.tag = "add"
             THEN [s1 EXCEPT !.rdata = RPut(@, d.k, RefProxy(d.k, d.uuid, d.name))]
             ELSE IF d.k \in RKeys(s1.rdata) THEN [s1 EXCEPT !.rdata = RDel(@, d.k)]
             ELSE s1

\* whether the pass for d ends in the except clause: link() or unlink()
\* raised, or del self._data[k] found no key k
MemberRaises(s, kind, d, to_blender) ==
    /\ d.tag \in {"add", "del"} /\ d.ref
    /\ LET x == DictGet(s.datablocks, d.uuid) IN
       \/ to_blender /\ x # {} /\ HostLinkRaises(s, kind, The(x))
       \/ d.tag = "del" /\ d.k \notin RKeys(s.rdata)

\* apply() without the try/except: the first exception ends the loop
RECURSIVE ApplyRefDeltas_aborts(_, _, _, _)
ApplyRefDeltas_aborts(s, kind, ds, to_blender) ==
    IF ds = <<>> THEN s
    ELSE IF MemberRaises(s, kind, Head(ds), to_blender) THEN s
    ELSE ApplyRefDeltas_aborts(ApplyRefDelta(s, kind, Head(ds), to_blender),
                               kind, Tail(ds), to_blender)

RECURSIVE ApplyRefDeltas(_, _, _, _)
ApplyRefDeltas(s, kind, ds, to_blender) ==
    IF ds = <<>> THEN s
    ELSE ApplyRefDeltas(ApplyRefDelta(s, kind, Head(ds), to_blender), kind, Tail(ds), to_blender)

\* apply() dropping from the proxy state the datablocks of the deletions
RefCollApply_unregisters(s, kind, ds, to_blender) ==
    LET r == ApplyRefDeltas(s, kind, ds, to_blender)
        gone == {ds[i].uuid : i \in {j \in 1..Len(ds) : ds[j].tag = "del"}}
    IN  [r EXCEPT !.datablocks = [u \in DOMAIN @ \ gone |-> @[u]]]

\* DatablockRefCollectionProxy.apply(parent, key, collection_delta, context, to_blender)
RefCollApply(s, kind, ds, to_blender) == ApplyRefDeltas(s, kind, ds, to_blender)

\* ------------------------------------------------------------------ NodeLinksProxy
\* the node tree has the nodes "N1" and "N2", each with MaxSockets inputs and
\* as many outputs; a socket is known by its identifier
NodeNames == {"N1", "N2"}
Sockets == 0..(MaxSockets - 1)
OutputIds == <<"Out0", "Out1", "Out2", "Out3">>
InputIds == <<"In0", "In1", "In2", "In3">>
\* node.outputs, node.inputs
outputs(node) == [i \in 1..MaxSockets |-> OutputIds[i]]
inputs(node) == [i \in 1..MaxSockets |-> InputIds[i]]
\* _find_socket() counting the sockets from one
find_socket_from_one(sockets, identifier) ==
    IF \E i \in 1..Len(sockets) : sockets[i] = identifier
    THEN Min({i \in 1..Len(sockets) : sockets[i] = identifier})
    ELSE -1
\* sockets[index], for an index in range
SocketAt(sockets, index) == sockets[index + 1]
\* _find_socket(sockets, identifier): the index of the socket, or -1
find_socket(sockets, identifier) ==
    IF \E i \in 1..Len(sockets) : sockets[i] = identifier
    THEN Min({i \in 1..Len(sockets) : sockets[i] = identifier}) - 1
    ELSE -1
\* a bpy.types.NodeLink: the nodes and the sockets it joins
NodeLink(fn, fs, tn, ts) ==
    [from_node |-> fn, from_socket |-> fs, to_node |-> tn, to_socket |-> ts]
\* node_tree.links.new(from_socket, to_socket): an input takes one link, the
\* link it had is removed; the new link is the last one
LinksNew(links, fn, fs, tn, ts) ==
    LET Other(l) == ~(l.to_node = tn /\ l.to_socket = ts)
    IN  Append(SelectSeq(links, Other), NodeLink(fn, fs, tn, ts))
NodesGet(name) == IF name \in NodeNames THEN {name} ELSE {}
\* sockets[index]: IndexError out of range
SocketRaises(index) == index \notin Sockets
LinkItem(fn, fs, tn, ts) ==
    [from_node |-> fn, from_socket |-> fs, to_node |-> tn, to_socket |-> ts]

\* one pass of the loop of save(); acc is [links, done, raised], done after
\* the return that follows a node that is not found
SaveLink(acc, link_proxy) ==
    IF acc.done \/ acc.raised THEN acc
    ELSE IF NodesGet(link_proxy.from_node) = {} THEN [acc EXCEPT !.done = TRUE]
    ELSE IF SocketRaises(link_proxy.from_socket) THEN [acc EXCEPT !.raised = TRUE]
    ELSE IF NodesGet(link_proxy.to_node) = {} THEN [acc EXCEPT !.done = TRUE]
    ELSE IF SocketRaises(link_proxy.to_socket) THEN [acc EXCEPT !.raised = TRUE]
    ELSE [acc EXCEPT !.links =
            LinksNew(@, link_proxy.from_node,
                     SocketAt(outputs(link_proxy.from_node), link_proxy.from_socket),
                     link_proxy.to_node,
                     SocketAt(inputs(link_proxy.to_node), link_proxy.to_socket))]

RECURSIVE SaveLinks(_, _)
SaveLinks(acc, sq) ==
    IF sq = <<>> THEN acc ELSE SaveLinks(SaveLink(acc, Head(sq)), Tail(sq))

\* NodeLinksProxy._load(links): one item per link, node names and socket indices
NodeLinks_load(links) ==
    [i \in 1..Len(links) |->
        LinkItem(links[i].from_node,
                 find_socket(outputs(links[i].from_node), links[i].from_socket),
                 links[i].to_node,
                 find_socket(inputs(links[i].to_node), links[i].to_socket))]

\* NodeLinksProxy.load(links, key, _, context)
NodeLinksLoad(s) == [s EXCEPT !.nseq = NodeLinks_load(s.nlinks)]

\* diff() comparing the number of links only
NodeLinksDiff_by_length(s) ==
    LET blender_links == NodeLinks_load(s.nlinks) IN
    IF Len(blender_links) = Len(s.nseq) THEN {}
    ELSE {[tag |-> "upd", sq |-> blender_links]}

\* NodeLinksProxy.diff(links, key, prop, context): None, or a DeltaUpdate of
\* a proxy that holds all the links
NodeLinksDiff(s) ==
    LET blender_links == NodeLinks_load(s.nlinks) IN
    IF blender_links = s.nseq THEN {}
    ELSE {[tag |-> "upd", sq |-> blender_links]}

\* NodeLinksProxy.save(unused_attribute, node_tree, unused_key, context);
\* isTree: node_tree is a bpy.types.NodeTree. The result is [s, raised].
NodeLinksSave(s, isTree) ==
    IF ~isTree THEN [s |-> s, raised |-> FALSE]
    ELSE LET r == SaveLinks([links |-> <<>>, done |-> FALSE, raised |-> FALSE], s.nseq)
         IN  [s |-> [s EXCEPT !.nlinks = r.links], raised |-> r.raised]

\* NodeLinksProxy.apply(attribute, parent, key, delta, context, to_blender);
\* sq is delta.value._sequence, keyIsStr whether key is a str
NodeLinksApply(s, sq, keyIsStr, isTree, to_blender) ==
    IF ~keyIsStr THEN [s |-> s, raised |-> TRUE]
    ELSE LET s1 == [s EXCEPT !.nseq = sq] IN
         IF to_blender THEN NodeLinksSave(s1, isTree)
         ELSE [s |-> s1, raised |-> FALSE]

\* ------------------------------------------------------------------ NonePtrProxy
\* setattr(parent, key, datablock): AttributeError when the attribute is
\* read-only (as in save(), Material.node_tree), ReferenceError when the
\* datablock was destroyed
SetattrRaises(s, writable, d) ==
    ~writable \/ (d # {} /\ s.ent[The(d)].st # "live")

\* apply() looking the datablock up and leaving the pointer as it is
NonePtrApply_no_setattr(s, isRef, value, writable, to_blender) ==
    IF isRef
    THEN IF to_blender
         THEN LET datablock == DictGet(s.datablocks, value.uuid) IN
              IF SetattrRaises(s, writable, datablock)
              THEN [s |-> s, ret |-> {}, raised |-> TRUE]
              ELSE [s |-> s, ret |-> {value}, raised |-> FALSE]
         ELSE [s |-> s, ret |-> {value}, raised |-> FALSE]
    ELSE [s |-> s, ret |-> {}, raised |-> FALSE]

\* NonePtrProxy.apply(parent, key, delta, context, to_blender); value is
\* delta.value (update in the source), isRef whether it is a DatablockRefProxy, writable whether the
\* host lets parent.key be set. The result is [s, ret, raised], ret an Optional.
NonePtrApply(s, isRef, value, writable, to_blender) ==
    IF isRef
    THEN IF to_blender
         THEN LET datablock == DictGet(s.datablocks, value.uuid) IN
              IF SetattrRaises(s, writable, datablock)
              THEN [s |-> s, ret |-> {}, raised |-> TRUE]
              ELSE [s |-> [s EXCEPT !.camera = datablock], ret |-> {value},
                    raised |-> FALSE]
         ELSE [s |-> s, ret |-> {value}, raised |-> FALSE]
    ELSE [s |-> s, ret |-> {}, raised |-> FALSE]

\* ------------------------------------------------------------------ diff()
\* blender_items = {item.mixer_uuid: item for item in collection.values()}:
\* of the members that carry one uuid, the last one
blender_items(s) ==
    [u \in MemberUuids(s.ent, s.refcoll) |->
        s.refcoll[Max({i \in 1..Len(s.refcoll) :
                          s.refcoll[i] # NoneRef /\ s.ent[s.refcoll[i]].uuid = {u}})]]
\* diff() taking every live member for an added one
added_keys_all_live(s) == DOMAIN blender_items(s)
added_keys(s) == DOMAIN blender_items(s) \ RKeys(s.rdata)
\* diff() that finds no deleted member
deleted_keys_none(s) == {}
deleted_keys(s) == RKeys(s.rdata) \ DOMAIN blender_items(s)
maybe_updated_keys(s) == RKeys(s.rdata) \cap DOMAIN blender_items(s)

\* read_attribute(blender_items[k], k, item_property, context): a reference
\* proxy loaded from the member
read_attribute(s, k) == RefProxy(k, k, s.ent[blender_items(s)[k]].name)

\* the entries of diff._data, as apply() reads them
DeltaAddition(k, value) ==
    [k |-> k, tag |-> "add", ref |-> TRUE, uuid |-> value.uuid, name |-> value.name]
DeltaDeletion(k, value) ==
    [k |-> k, tag |-> "del", ref |-> TRUE, uuid |-> value.uuid, name |-> value.name]
DeltaUpdate(k, value) ==
    [k |-> k, tag |-> "upd", ref |-> TRUE, uuid |-> value.uuid, name |-> value.name]

\* diff_attribute(blender_items[k], k, item_property, self.data(k), context):
\* an Optional[DeltaUpdate]; changed holds the keys of the members that differ
\* from their reference proxy
diff_attribute(s, k, changed) ==
    IF k \in changed THEN {DeltaUpdate(k, read_attribute(s, k))} ELSE {}

\* diff() wrapping a new, empty reference in its deletions
DiffEntries_delete_wraps_new(s, added, deleted, both, changed) ==
    LET Add(k) == DeltaAddition(k, read_attribute(s, k))
        Remove(k) == DeltaDeletion(k, RefProxy(k, k, NoName))
        Upd(k) == The(diff_attribute(s, k, changed))
        updated == SelectSeq(both, LAMBDA k : diff_attribute(s, k, changed) # {})
    IN  [i \in 1..Len(added) |-> Add(added[i])]
        \o [i \in 1..Len(deleted) |-> Remove(deleted[i])]
        \o [i \in 1..Len(updated) |-> Upd(updated[i])]

\* the three loops of diff() filling diff._data; added, deleted and both list
\* added_keys, deleted_keys and maybe_updated_keys as the loops iterate them
DiffEntries(s, added, deleted, both, changed) ==
    LET Add(k) == DeltaAddition(k, read_attribute(s, k))
        Remove(k) == DeltaDeletion(k, RefOf(s.rdata, k))
        Upd(k) == The(diff_attribute(s, k, changed))
        updated == SelectSeq(both, LAMBDA k : diff_attribute(s, k, changed) # {})
    IN  [i \in 1..Len(added) |-> Add(added[i])]
        \o [i \in 1..Len(deleted) |-> Remove(deleted[i])]
        \o [i \in 1..Len(updated) |-> Upd(updated[i])]

\* diff() returning the DeltaUpdate whatever it holds
RefCollDiff_always_update(s, added, deleted, both, changed) ==
    {DiffEntries(s, added, deleted, both, changed)}

\* DatablockRefCollectionProxy.diff(collection, key, collection_property,
\* context): an Optional[DeltaUpdate], None as {} and DeltaUpdate(diff) as the
\* set of the one sequence of the entries of diff._data
RefCollDiff(s, added, deleted, both, changed) ==
    LET diff == DiffEntries(s, added, deleted, both, changed) IN
    IF Len(diff) # 0 THEN {diff} ELSE {}

\* ------------------------------------------------------------------ initial states
\* A session starts with nothing tracked. The scene that clear_scene_content()
\* could not remove may be there; the live reference collection is one of those
\* the proxy is written for: a link collection (Scene.collection.objects,
\* Collection.children) or an IDMaterials (Object.materials).
RefKinds == {"link", "append"}
DeltaTags == {"add", "del", "upd"}

Start ==
    /\ \E ph \in BOOLEAN :
         ent = [x \in Ents |->
                  IF ph /\ x = 1
                  THEN [st |-> "live", name |-> PlaceholderName, uuid |-> {},
                        coll |-> "scenes", skip |-> FALSE]
                  ELSE FreeEnt]
    /\ prox = [p \in Pxs |-> FreePx]
    /\ data = [c \in Colls |-> EmptyDict]
    /\ datablocks = EmptyDict
    /\ proxies = EmptyDict
    /\ unresolved = EmptyDict
    /\ fired = [a \in Acts |-> <<>>]
    /\ refcoll = <<>>
    /\ refkind \in RefKinds
    /\ rdata = <<>>
    /\ peer = <<>>
    /\ nseq = <<>>
    /\ nlinks = <<>>
    /\ camera = {}
    /\ last = [op |-> "init"]
    /\ mirror = [c \in Colls |-> TRUE]
    /\ ops = 0

Init == Start /\ budget = MaxOps

\* ------------------------------------------------------------------ the user's edits
LocalCreate(CS, BS, SK) ==
    \E c \in CS, b \in BS, skip \in SK :
        /\ FreeEnts(ent) # {}
        /\ Edit(HostNew(State, c, Name(b), skip).s)
        /\ last' = [op |-> "local_create"]

LocalRemove ==
    \E x \in Ents :
        /\ ent[x].st = "live"
        /\ Edit(HostRemove(State, x))
        /\ last' = [op |-> "local_remove"]

LocalRename ==
    \E x \in Ents, b \in BaseNames, push \in BOOLEAN :
        /\ ent[x].st = "live"
        /\ ent[x].name # Name(b)
        /\ Edit(HostRename(State, x, Name(b), push))
        /\ last' = [op |-> "local_rename", x |-> x]

\* the user links a datablock that has a uuid into the live reference
\* collection, or leaves an empty slot in an IDMaterials
LocalLink ==
    \E x \in {y \in Ents : ent[y].st = "live" /\ ent[y].uuid # {}} \cup {NoneRef} :
        /\ Len(refcoll) < MaxEnts
        /\ x = NoneRef => refkind = "append"
        /\ Edit([State EXCEPT !.refcoll =
                    IF x = NoneRef THEN Append(@, x)
                    ELSE add_datablock_ref_element(refkind, @, x)])
        /\ last' = [op |-> "local_link"]

\* ------------------------------------------------------------------ the calls
Load(CS) ==
    \E c \in CS :
        LET todo == {x \in Members(ent, c) : ~ent[x].skip} IN
        /\ Cardinality(FreePxs(prox)) >= Cardinality(todo)
        /\ CanMint(State, Cardinality({x \in todo : ent[x].uuid = {}}))
        /\ Commit(load(State, c))
        /\ last' = [op |-> "load", c |-> c]

CreateDatablock(CS, BS) ==
    \E u \in PeerUuids(State), b \in BS, c \in CS, hostFails \in BOOLEAN :
        /\ FreePxs(prox) # {}
        /\ hostFails \/ FreeEnts(ent) # {}
        /\ LET rp == ReceiveProxy(State, u, Name(b), c)
               r == create_datablock(rp.s, refkind, c, rp.px, hostFails)
           IN  /\ Commit(IF r.ret = {} THEN [r.s EXCEPT !.prox[rp.px] = FreePx] ELSE r.s)
               /\ last' = [op |-> "create", c |-> c, u |-> u, p |-> rp.px,
                           hostFails |-> hostFails, ret |-> r.ret]

UpdateDatablock ==
    \E u \in PeerUuids(State), morph \in BOOLEAN :
        /\ morph => FreeEnts(ent) # {}
        /\ LET r == update_datablock(State, u, morph)
           IN  /\ Commit(r.s)
               /\ last' = [op |-> "update_datablock", u |-> u, morph |-> morph,
                           ret |-> r.ret, out |-> r.out]

\* the caller resolves (proxy, datablock) from the proxy state
RemoveDatablock ==
    \E u \in (DOMAIN proxies) \cap (DOMAIN datablocks) :
        LET p == proxies[u]
            x == datablocks[u]
        IN  \E also \in AtMostOne({y \in Ents : ent[y].st = "live" /\ y # x}) :
                LET r == remove_datablock(State, prox[p].coll, p, x, also)
                IN  /\ Commit(r.s)
                    /\ last' = [op |-> "remove_datablock", u |-> u, p |-> p, x |-> x,
                                dangling |-> (ent[x].st # "live"), raised |-> r.raised]

RenameDatablock ==
    \E u \in (DOMAIN proxies) \cap (DOMAIN datablocks), b \in BaseNames, push \in BOOLEAN :
        LET p == proxies[u]
            x == datablocks[u]
            r == rename_datablock(State, p, Name(b), x, push)
        IN  /\ Commit(r.s)
            /\ last' = [op |-> "rename_datablock", u |-> u, p |-> p, x |-> x,
                        nm |-> Name(b), raised |-> r.raised]

\* update() with the diff of the live collection c against the snapshot, which
\* may also hold stale entries: an added name that is no longer in the
\* collection, a removed proxy that is not tracked, a rename to a name that is
\* not in the collection. stale: whether such entries occur.
StaleAdded(c, stale) ==
    IF stale THEN AtMostOne({Name(b) : b \in {bb \in BaseNames : ~NameTaken(ent, c, Name(bb))}})
    ELSE {{}}
StaleRemoved(c, stale) ==
    IF stale THEN AtMostOne({p \in Pxs : /\ prox[p].used /\ prox[p].coll = c
                                         /\ prox[p].uuid \cap DOMAIN data[c] = {}})
    ELSE {{}}
StaleRenamed(c, stale) ==
    IF stale THEN AtMostOne({pr \in Pxs \X {Name(b) : b \in BaseNames} :
                                /\ \E u \in DOMAIN data[c] : data[c][u] = pr[1]
                                /\ ~NameTaken(ent, c, pr[2])})
    ELSE {{}}

Update(CS, stale) ==
    \E c \in CS :
      \E phA \in StaleAdded(c, stale), phR \in StaleRemoved(c, stale),
         phN \in StaleRenamed(c, stale) :
        \E added \in Perms(ExactAdded(State, c) \cup phA),
           removed \in Perms(ExactRemoved(State, c) \cup phR),
           renamed \in Perms(ExactRenamed(State, c) \cup phN),
           failing \in SUBSET ExactAdded(State, c) :
          LET diff == [items_added |-> added, items_removed |-> removed,
                       items_renamed |-> renamed]
              loads == ExactAdded(State, c) \ failing
              mints == {x \in Members(ent, c) : ent[x].name \in ExactAdded(State, c)
                                                /\ ent[x].uuid = {}}
              r == update(State, c, diff, failing)
          IN  /\ Cardinality(FreePxs(prox)) >= Cardinality(loads)
              /\ CanMint(State, Cardinality(mints))
              /\ Commit(r.s)
              /\ last' = [op |-> "update", c |-> c, diff |-> diff, failing |-> failing,
                          exact |-> (phA = {} /\ phR = {} /\ phN = {}),
                          cs |-> r.cs, raised |-> r.raised]

Save(CS) ==
    \E c \in CS, present \in BOOLEAN :
        /\ Commit(save(State, c, present))
        /\ last' = [op |-> "save", c |-> c, present |-> present, raised |-> FALSE,
                    empty |-> (DOMAIN data[c] = {})]

\* apply() of a delta of at most n member deltas, their classes in TG, their
\* values DatablockRefProxy or not as RF says
RefApply(n, TG, RF) ==
    \E ks \in UNION {Perms(K) : K \in {KK \in SUBSET PeerUuids(State) :
                                          KK # {} /\ Cardinality(KK) <= n}},
       to_blender \in BOOLEAN :
      \E tg \in [1..Len(ks) -> TG], rf \in [1..Len(ks) -> RF] :
        LET ds == [i \in 1..Len(ks) |->
                     [k |-> ks[i], tag |-> tg[i], ref |-> rf[i], uuid |-> ks[i],
                      name |-> NoName]]
        IN  /\ Commit(RefCollApply(State, refkind, ds, to_blender))
            /\ last' = [op |-> "ref_apply", ds |-> ds, to_blender |-> to_blender]

RefSave ==
    \E present \in BOOLEAN :
        LET r == RefCollSave(State, refkind, present)
        IN  /\ CanDefer(State, Cardinality({i \in 1..Len(rdata) : RefTarget(State, rdata[i]) = {}}))
            /\ Commit(r.s)
            /\ last' = [op |-> "ref_save", present |-> present, raised |-> r.raised]

RefLoad ==
    LET r == RefCollLoad(State)
    IN  /\ Commit(r.s)
        /\ last' = [op |-> "ref_load", raised |-> r.raised]

\* diff() of the proxy against the live collection, one that has no empty
\* slot; the sets are iterated in any order, and any of the members in both
\* may differ from its reference proxy
RefDiff ==
    /\ \A i \in 1..Len(refcoll) : refcoll[i] # NoneRef
    /\ \E changed \in SUBSET maybe_updated_keys(State) :
         \E added \in Perms(added_keys(State)), deleted \in Perms(deleted_keys(State)),
            both \in Perms(maybe_updated_keys(State)) :
            /\ Commit(State)
            /\ last' = [op |-> "ref_diff", changed |-> changed,
                        ret |-> RefCollDiff(State, added, deleted, both, changed)]

\* the delta that diff() has just returned is applied to the proxy it was
\* computed against, the live collection having the changes already
RefApplyDiff ==
    /\ last.op = "ref_diff" /\ last.ret # {}
    /\ Commit(RefCollApply(State, refkind, The(last.ret), FALSE))
    /\ last' = [op |-> "ref_apply_diff", ds |-> The(last.ret)]

\* the delta that diff() has just returned is applied to a new
\* DatablockRefCollectionProxy()
RefApplyFresh ==
    /\ last.op = "ref_diff" /\ last.ret # {}
    /\ LET r == RefCollApply([State EXCEPT !.rdata = <<>>], refkind, The(last.ret), FALSE)
       IN  Commit([State EXCEPT !.peer = r.rdata])
    /\ last' = [op |-> "ref_apply_fresh", ds |-> The(last.ret)]

\* a uuid minted by a peer for a datablock that this session never had
ForeignUuid == MaxUuids + 1

\* apply() of the addition of a reference to such a datablock, to the proxy only
RefApplyForeign ==
    LET ds == <<DeltaAddition(ForeignUuid, RefProxy(ForeignUuid, ForeignUuid, NoName))>> IN
    /\ ForeignUuid \notin RKeys(rdata)
    /\ Commit(RefCollApply(State, refkind, ds, FALSE))
    /\ last' = [op |-> "ref_apply", ds |-> ds, to_blender |-> FALSE]

\* apply() once more, of the delta and with the arguments of the call that
\* has just returned
RefApplyAgain ==
    /\ last.op = "ref_apply"
    /\ Commit(RefCollApply(State, refkind, last.ds, last.to_blender))
    /\ last' = [op |-> "ref_apply_again", ds |-> last.ds, to_blender |-> last.to_blender]

\* the links a delta can carry: one that can be made, and one for each thing
\* save() can find missing
LinkItems ==
    {LinkItem("N1", 0, "N1", 0), LinkItem("Gone", 0, "N1", 0), LinkItem("N1", 0, "Gone", 0),
     LinkItem("N1", MaxSockets, "N1", 0), LinkItem("N1", 0, "N1", MaxSockets)}

\* the links proxy shares no state with the other proxies: its deltas are
\* followed when they are among the first When calls of the session
LinksApply(When) ==
    \E n \in 0..MaxLinks, keyIsStr \in BOOLEAN, isTree \in BOOLEAN, to_blender \in BOOLEAN :
      \E sq \in [1..n -> LinkItems] :
        LET r == NodeLinksApply(State, sq, keyIsStr, isTree, to_blender)
        IN  /\ ops < When
            /\ Commit(r.s)
            /\ last' = [op |-> "links_apply", sq |-> sq, keyIsStr |-> keyIsStr,
                        isTree |-> isTree, to_blender |-> to_blender, raised |-> r.raised]

LinksApplyAgain ==
    /\ last.op = "links_apply"
    /\ LET r == NodeLinksApply(State, last.sq, last.keyIsStr, last.isTree, last.to_blender)
       IN  /\ Commit(r.s)
           /\ last' = [op |-> "links_apply_again", sq |-> last.sq, first |-> last.raised,
                       raised |-> r.raised]

\* save() of the proxy into the same collection of an equivalent graph, one
\* that has the datablocks and a collection without members yet
RefSaveEmpty ==
    LET r == RefCollSave([State EXCEPT !.refcoll = <<>>], refkind, TRUE)
    IN  /\ CanDefer(State, Cardinality({i \in 1..Len(rdata) : RefTarget(State, rdata[i]) = {}}))
        /\ Commit(r.s)
        /\ last' = [op |-> "ref_save_empty", raised |-> r.raised]

\* the user sets the pointer, or clears it
LocalPoint ==
    \E d \in {{x} : x \in {y \in DOMAIN ent : ent[y].st = "live"}} \cup {{}} :
        /\ d # camera
        /\ Edit([State EXCEPT !.camera = d])
        /\ last' = [op |-> "local_point"]

\* apply() of the NonePtrProxy of the pointer: the delta of a peer wraps a
\* reference to a datablock, or something else
PointerApply ==
    \E u \in PeerUuids(State), isRef \in BOOLEAN, writable \in BOOLEAN,
       to_blender \in BOOLEAN :
        LET value == RefProxy(u, u, NoName)
            r == NonePtrApply(State, isRef, value, writable, to_blender)
        IN  /\ Commit(r.s)
            /\ last' = [op |-> "pointer_apply", isRef |-> isRef, value |-> value,
                        writable |-> writable, to_blender |-> to_blender,
                        ret |-> r.ret, raised |-> r.raised]

\* the user draws a link in the node editor, or removes one
LocalNodeLink ==
    \E fn \in NodeNames, tn \in NodeNames, fs \in Sockets, ts \in Sockets :
        /\ Edit([State EXCEPT !.nlinks =
                    LinksNew(@, fn, SocketAt(outputs(fn), fs), tn, SocketAt(inputs(tn), ts))])
        /\ last' = [op |-> "local_node_link"]

LocalNodeUnlink ==
    \E i \in 1..Len(nlinks) :
        /\ Edit([State EXCEPT !.nlinks =
                    SubSeq(@, 1, i - 1) \o SubSeq(@, i + 1, Len(@))])
        /\ last' = [op |-> "local_node_unlink"]

LinksLoad ==
    /\ Commit(NodeLinksLoad(State))
    /\ last' = [op |-> "links_load"]

LinksSave ==
    \E isTree \in BOOLEAN :
        LET r == NodeLinksSave(State, isTree)
        IN  /\ Commit(r.s)
            /\ last' = [op |-> "links_save", isTree |-> isTree, raised |-> r.raised]

LinksDiff ==
    /\ Commit(State)
    /\ last' = [op |-> "links_diff", ret |-> NodeLinksDiff(State)]

\* the DeltaUpdate that diff() has just returned is applied to the proxy
LinksApplyDiff ==
    /\ last.op = "links_diff" /\ last.ret # {}
    /\ \E isTree \in BOOLEAN, to_blender \in BOOLEAN :
         LET r == NodeLinksApply(State, The(last.ret).sq, TRUE, isTree, to_blender)
         IN  /\ Commit(r.s)
             /\ last' = [op |-> "links_apply_diff", sq |-> The(last.ret).sq,
                         isTree |-> isTree, to_blender |-> to_blender, raised |-> r.raised]

\* ------------------------------------------------------------------ specifications
Objects == {"objects"}

\* the bpy.data.objects proxy under local edits and remote commands
NextSync ==
    \/ LocalCreate(Objects, BaseNames, BOOLEAN)
    \/ LocalRemove
    \/ LocalRename
    \/ Load(Objects)
    \/ CreateDatablock(Objects, BaseNames)
    \/ UpdateDatablock
    \/ RemoveDatablock
    \/ RenameDatablock
    \/ Update(Objects, FALSE)

InitSync == Init /\ Members(ent, "scenes") = {} /\ refkind = "link"

SpecSync == InitSync /\ [][NextSync]_vars

\* creations received from a peer, references to datablocks that may not have
\* arrived yet, and the local additions and removals
NextCreate ==
    \/ LocalCreate(Objects, {"A"}, {FALSE})
    \/ LocalRemove
    \/ CreateDatablock(Colls, {"A"})
    \/ Update(Objects, FALSE)
    \/ RefApply(1, {"add", "del"}, {TRUE})
    \/ RefSave

SpecCreate == Init /\ [][NextCreate]_vars

\* update() given diffs that may list stale entries, between local edits and
\* the creations and removals received from a peer
NextStale ==
    \/ LocalCreate(Objects, BaseNames, {FALSE})
    \/ LocalRemove
    \/ LocalRename
    \/ CreateDatablock(Objects, BaseNames)
    \/ RemoveDatablock
    \/ Update(Objects, TRUE)

SpecStale == InitSync /\ [][NextStale]_vars

\* a session in which the collection is loaded again: local additions and
\* removals, update() and load(), followed one call further
NextReload ==
    \/ LocalCreate(Objects, {"A"}, {FALSE})
    \/ LocalRemove
    \/ Load(Objects)
    \/ Update(Objects, FALSE)

InitReload ==
    Start /\ Members(ent, "scenes") = {} /\ refkind = "link" /\ budget = MaxReloadOps

SpecReload == InitReload /\ [][NextReload]_vars

\* a reference collection proxy loaded from a live collection that the user
\* edits, and updated by the deltas of a peer
NextRef ==
    \/ CreateDatablock(Objects, {"A"})
    \/ LocalRemove
    \/ LocalLink
    \/ RefLoad
    \/ RefApply(1, {"add"}, {TRUE})

InitRef == Init /\ Members(ent, "scenes") = {}

SpecRef == InitRef /\ [][NextRef]_vars

\* a reference collection proxy kept in step with its live collection by
\* diff() and apply(), between the edits of the user and the messages of a peer
NextRefSync ==
    \/ CreateDatablock(Objects, {"A"})
    \/ LocalRemove
    \/ LocalLink
    \/ RefLoad
    \/ RefSave
    \/ RefApply(1, {"add", "del"}, {TRUE})
    \/ RefDiff
    \/ RefApplyDiff
    \/ RefApplyFresh

InitRefSync == Start /\ Members(ent, "scenes") = {} /\ budget = MaxRefOps

SpecRefSync == InitRefSync /\ [][NextRefSync]_vars

\* apply() of the deltas a peer sends, of any class and value, one or more
\* members at a time
NextRefApply ==
    \/ CreateDatablock(Objects, {"A"})
    \/ LocalRemove
    \/ RefApply(MaxDeltas, {"add", "del"}, {TRUE})
    \/ RefApply(1, DeltaTags, BOOLEAN)

InitRefApply == Start /\ Members(ent, "scenes") = {} /\ budget = MaxApplyOps

SpecRefApply == InitRefApply /\ [][NextRefApply]_vars

\* a link collection and its proxy drifting apart by members the user links
\* and references only the proxy holds, then diff() and the delta given to a
\* new proxy
NextScenario ==
    \/ CreateDatablock(Objects, {"A"})
    \/ LocalLink
    \/ RefApply(1, {"add"}, {TRUE})
    \/ RefApplyForeign
    \/ RefDiff
    \/ RefApplyFresh

InitScenario ==
    Start /\ Members(ent, "scenes") = {} /\ refkind = "link" /\ budget = MaxScenarioOps

SpecScenario == InitScenario /\ [][NextScenario]_vars

\* the deltas of a peer, each applied once or twice, to the reference
\* collection proxy and to the proxy of the links of a node tree
NextTwice ==
    \/ CreateDatablock(Objects, {"A"})
    \/ LocalRemove
    \/ RefApply(MaxDeltas, {"add", "del"}, {TRUE})
    \/ RefApplyAgain
    \/ LinksApply(1)
    \/ LinksApplyAgain

SpecTwice == InitRefApply /\ [][NextTwice]_vars

\* the two collection proxies saved, after loads, local renames and the
\* creations and references received from a peer
NextSave ==
    \/ LocalCreate(Objects, BaseNames, {FALSE})
    \/ LocalRename
    \/ Load(Objects)
    \/ CreateDatablock(Objects, {"A"})
    \/ RefApply(1, {"add"}, {TRUE})
    \/ Save(Objects)
    \/ RefSave

InitSave == Start /\ Members(ent, "scenes") = {} /\ budget = MaxApplyOps

SpecSave == InitSave /\ [][NextSave]_vars

\* ------------------------------------------------------------------ properties
Pending(u) == IF u \in DOMAIN unresolved THEN Range(unresolved[u]) ELSE {}
Created == last.op = "create" /\ last.ret # {}

\* C1: after a create_datablock whose construction returns a datablock D for the
\* incoming proxy of uuid U, the snapshot maps U to the incoming proxy, the
\* proxy state maps U to D and to the incoming proxy, every action that was
\* deferred for U has been run with D and none is left, and D is returned.
C1_CreateRegisters ==
    [][(last'.op = "create" /\ last'.ret # {}) =>
        LET u == last'.u
            D == The(last'.ret)
        IN  /\ ent[D].st = "free" /\ ent'[D].st = "live" /\ ent'[D].uuid = {u}
            /\ u \in DOMAIN data'[last'.c] /\ data'[last'.c][u] = last'.p
            /\ u \in DOMAIN datablocks' /\ datablocks'[u] = D
            /\ u \in DOMAIN proxies' /\ proxies'[u] = last'.p
            /\ prox'[last'.p].uuid = {u}
            /\ u \notin DOMAIN unresolved'
            /\ \A a \in Pending(u) : fired'[a] = Append(fired[a], D)]_vars

C1_Witness ==
    /\ Created
    /\ \E a \in Acts : fired[a] = <<The(last.ret)>>
    /\ datablocks[last.u] = The(last.ret)

\* C2: when the construction fails, create_datablock returns None and the
\* snapshot, both maps of the proxy state and the unresolved references are
\* what they were before the call.
C2_FailedCreateRegistersNothing ==
    [][(last'.op = "create" /\ last'.hostFails) =>
        /\ last'.ret = {}
        /\ data' = data
        /\ datablocks' = datablocks
        /\ proxies' = proxies
        /\ unresolved' = unresolved
        /\ fired' = fired]_vars

C2_Witness ==
    /\ last.op = "create" /\ last.hostFails /\ last.ret = {}
    /\ last.u \in DOMAIN unresolved
    /\ last.u \notin DOMAIN datablocks

C4_NoStaleUnresolved == \A u \in DOMAIN datablocks : u \notin DOMAIN unresolved

C4_Witness ==
    /\ last.op = "update" /\ last.cs.creations # <<>>
    /\ DOMAIN unresolved # {}
    /\ DOMAIN datablocks # {}

\* the proxies of uuid u that the snapshots or the proxy state hold
ProxiesOf(u) ==
    {p \in Pxs : /\ prox[p].uuid = {u}
                 /\ \/ \E c \in Colls : \E k \in DOMAIN data[c] : data[c][k] = p
                    \/ \E k \in DOMAIN proxies : proxies[k] = p}
LiveOf(u) == {x \in Ents : ent[x].st = "live" /\ ent[x].uuid = {u}}

\* C5: every uuid is carried by at most one live datablock and has at most one
\* proxy, whatever calls were made.
C5_OneDatablockOneProxyPerUuid ==
    \A u \in Uuids : Cardinality(LiveOf(u)) <= 1 /\ Cardinality(ProxiesOf(u)) <= 1

\* C6: the two maps of the proxy state have the same uuids after every call.
C6_RegistryMapsSameKeys == DOMAIN datablocks = DOMAIN proxies

\* the uuids of the live datablocks of c that the filter does not exclude
TrackedUuids(e, c) == UNION {e[x].uuid : x \in {y \in Members(e, c) : ~e[y].skip}}

\* C7 as stated: after load(), the snapshot's keys are exactly the uuids of the
\* live datablocks that the filter does not exclude.
C7_LoadKeysAreLiveUuids ==
    [][last'.op = "load" =>
        DOMAIN data'[last'.c] = TrackedUuids(ent', last'.c)]_vars

\* C7 amended: load() adds to the snapshot's keys the uuids of the live
\* datablocks that the filter does not exclude, each of which has a uuid
\* afterwards and a proxy of that uuid and name; the keys that were there stay,
\* and an excluded datablock gets no uuid and no entry.
C7_LoadAddsLiveUuids ==
    [][last'.op = "load" =>
        LET c == last'.c IN
        /\ DOMAIN data'[c] = DOMAIN data[c] \cup TrackedUuids(ent', c)
        /\ \A x \in Members(ent, c) :
             IF ent[x].skip THEN ent'[x] = ent[x]
             ELSE /\ ent'[x].uuid # {}
                  /\ ent[x].uuid # {} => ent'[x].uuid = ent[x].uuid
                  /\ prox'[data'[c][The(ent'[x].uuid)]].uuid = ent'[x].uuid
        /\ \A u \in DOMAIN data[c] \ TrackedUuids(ent', c) : data'[c][u] = data[c][u]]_vars

C7_Witness ==
    /\ last.op = "load"
    /\ \E x, y \in Members(ent, last.c) : ent[x].skip /\ ~ent[y].skip /\ ent[y].uuid # {}
    /\ DOMAIN data[last.c] = TrackedUuids(ent, last.c)

\* the uuids of the datablocks whose load failed in the last update()
FailedUuids(e, c, failing) == UNION {e[x].uuid : x \in {y \in Members(e, c) : e[y].name \in failing}}
SnapshotKeysDistinct(d, px, c) ==
    /\ \A u \in DOMAIN d[c] : px[d[c][u]].uuid = {u}
    /\ \A u, v \in DOMAIN d[c] : d[c][u] = d[c][v] => u = v

\* C8 as stated: from a snapshot that mirrored the live collection, after local
\* edits and update() with the exact diff, the snapshot's keys are the live uuids.
C8_UpdateMirrorsLive ==
    [][(last'.op = "update" /\ last'.exact /\ mirror[last'.c]) =>
        /\ DOMAIN data'[last'.c] = LiveUuids(ent', last'.c)
        /\ SnapshotKeysDistinct(data', prox', last'.c)]_vars

\* C8 amended: ... the snapshot's keys are the live uuids except those of the
\* added datablocks whose load failed, and no key occurs twice.
C8_UpdateMirrorsLoaded ==
    [][(last'.op = "update" /\ last'.exact /\ mirror[last'.c]) =>
        /\ DOMAIN data'[last'.c] =
              LiveUuids(ent', last'.c) \ FailedUuids(ent', last'.c, last'.failing)
        /\ SnapshotKeysDistinct(data', prox', last'.c)]_vars

C8_Witness ==
    /\ last.op = "update" /\ last.exact /\ last.failing = {}
    /\ last.cs.creations # <<>> /\ last.cs.removals # <<>>
    /\ DOMAIN data[last.c] = LiveUuids(ent, last.c)
    /\ mirror[last.c]

\* C9: update_datablock for a uuid without a proxy in the proxy state, or whose
\* proxy has another uuid, or without a datablock in the proxy state, returns
\* without raising and changes neither the snapshot, the proxy state nor the
\* live graph.
C9_UpdateDatablockFailsSoft ==
    [][(/\ last'.op = "update_datablock"
        /\ \/ last'.u \notin DOMAIN proxies
           \/ prox[proxies[last'.u]].uuid # {last'.u}
           \/ last'.u \notin DOMAIN datablocks) =>
        /\ last'.out \in {"missing_proxy", "mismatch", "missing_datablock"}
        /\ last'.ret = {}
        /\ UNCHANGED <<ent, prox, data, datablocks, proxies, unresolved, refcoll, rdata>>]_vars

C9_Witness ==
    /\ last.op = "update_datablock" /\ last.out = "missing_proxy"
    /\ last.u \in DOMAIN datablocks
    /\ last.u \notin DOMAIN proxies

\* C10: when the update routine returns another datablock than the registered
\* one, update_datablock repoints the uuid to it in the datablocks map and
\* leaves the proxies map and the snapshot as they were; when it returns the
\* same datablock the proxy state is unchanged.
C10_MorphRepoints ==
    [][(last'.op = "update_datablock" /\ last'.out = "updated") =>
        LET u == last'.u
            old == datablocks[u]
            new == The(last'.ret)
        IN  /\ proxies' = proxies
            /\ data' = data
            /\ last'.morph => new # old
            /\ IF new # old
               THEN /\ datablocks' = Put(datablocks, u, new)
                    /\ ent'[new].st = "live" /\ ent'[new].uuid = {u}
               ELSE datablocks' = datablocks]_vars

C10_Witness ==
    /\ last.op = "update_datablock" /\ last.out = "updated" /\ last.morph
    /\ datablocks[last.u] = The(last.ret)
    /\ \E c \in Colls : last.u \in DOMAIN data[c]

\* C11: remove_datablock of a proxy of the snapshot whose datablock the host
\* has already destroyed (a dangling reference) raises nothing and deletes the
\* proxy's uuid from the snapshot, as a removal of a live datablock does; the
\* proxy state, the other keys and the live graph are left as they were.
C11_DanglingRemoveStillDeletes ==
    [][(/\ last'.op = "remove_datablock"
        /\ last'.u \in DOMAIN data[prox[last'.p].coll]) =>
        LET c == prox[last'.p].coll IN
        /\ ~last'.raised
        /\ data' = [data EXCEPT ![c] = Del(@, last'.u)]
        /\ ent[last'.x].st # "live" =>
             UNCHANGED <<ent, refcoll, datablocks, proxies, prox>>]_vars

C11_Witness ==
    /\ last.op = "remove_datablock" /\ last.dangling /\ ~last.raised
    /\ ent[last.x].st = "dead"
    /\ last.u \notin DOMAIN data[prox[last.p].coll]
    /\ last.u \in DOMAIN datablocks

\* the uuids are where they were: no datablock or proxy changed its uuid, and
\* the snapshots and both maps of the proxy state are as before
SameIdentifiers ==
    /\ \A x \in Ents : ent'[x].uuid = ent[x].uuid
    /\ \A p \in Pxs : prox'[p].uuid = prox[p].uuid
    /\ data' = data /\ datablocks' = datablocks /\ proxies' = proxies

\* C12 as stated: rename_datablock of a live datablock sets the proxy's cached
\* name and the datablock's name to new_name and leaves every uuid, the
\* snapshot's keys and the keys of both maps as they were.
C12_RenameSetsBothNames ==
    [][(last'.op = "rename_datablock" /\ ent[last'.x].st = "live") =>
        /\ prox'[last'.p].name = last'.nm
        /\ ent'[last'.x].name = last'.nm
        /\ SameIdentifiers]_vars

\* C12 amended: ... sets the proxy's cached name to new_name and assigns
\* new_name to the datablock: its name is then new_name, unless another
\* datablock of the collection had that name, and then the host gives one of
\* the two new_name and the other new_name with a numeric suffix. Every uuid,
\* the snapshot's keys and the keys of both maps are as they were.
C12_RenameKeepsIdentifier ==
    [][(last'.op = "rename_datablock" /\ ent[last'.x].st = "live") =>
        LET x == last'.x
            nm == last'.nm
            c == ent[x].coll
            others == CollGet(ent, c, nm) \ {x}
        IN  /\ ~last'.raised
            /\ prox'[last'.p].name = nm
            /\ others = {} => ent'[x].name = nm
            /\ \A y \in others :
                 \/ ent'[x].name = nm /\ ent'[y].name.b = nm.b /\ ent'[y].name.n > 0
                 \/ ent'[y].name = nm /\ ent'[x].name.b = nm.b /\ ent'[x].name.n > 0
            /\ \A y, z \in Members(ent', c) : ent'[y].name = ent'[z].name => y = z
            /\ SameIdentifiers]_vars

C12_Witness ==
    /\ last.op = "rename_datablock" /\ ~last.raised
    /\ prox[last.p].name = last.nm
    /\ ent[last.x].st = "live" /\ ent[last.x].name # last.nm
    /\ ent[last.x].uuid = {last.u} /\ data[ent[last.x].coll][last.u] = last.p

\* the names of the proxies of Changeset.creations, in order
CreatedNames(px, cs) == [i \in 1..Len(cs.creations) |-> px[cs.creations[i]].name]

\* C13: Changeset.creations is in the lexicographic order of the added names,
\* and update() with the same additions listed in any other order yields the
\* same creations.
C13_CreationsSorted ==
    [][last'.op = "update" =>
        LET names == CreatedNames(prox', last'.cs) IN
        /\ \A i, j \in 1..Len(names) : i < j => NameLess(names[i], names[j])
        /\ \A other \in Perms(Range(last'.diff.items_added)) :
             update(State, last'.c, [last'.diff EXCEPT !.items_added = other],
                    last'.failing).cs.creations = last'.cs.creations]_vars

C13_Witness ==
    /\ last.op = "update"
    /\ Len(last.cs.creations) = 2
    /\ NameLess(last.diff.items_added[2], last.diff.items_added[1])
    /\ NameLess(prox[last.cs.creations[1]].name, prox[last.cs.creations[2]].name)

\* the proxies built during the step
NewProxies == {p \in Pxs : ~prox[p].used /\ prox'[p].used}

\* C14: in update(), an added name whose datablock is not found or whose load
\* raises gets no entry in Changeset.creations and no entry in the snapshot,
\* and every other added name is loaded: it has exactly one creation, which the
\* snapshot holds under the datablock's uuid.
C14_FailedAdditionSkipped ==
    [][last'.op = "update" =>
        LET c == last'.c
            added == Range(last'.diff.items_added)
            loadable == {nm \in added : CollGet(ent, c, nm) # {} /\ nm \notin last'.failing}
            created == last'.cs.creations
        IN  /\ Range(created) = NewProxies
            /\ \A i, j \in 1..Len(created) : created[i] = created[j] => i = j
            /\ {prox'[p].name : p \in NewProxies} = loadable
            /\ \A nm \in added \ loadable :
                 \A u \in DOMAIN data'[c] :
                     data'[c][u] \in NewProxies => prox'[data'[c][u]].name # nm
            /\ \A nm \in loadable :
                 LET x == The(CollGet(ent, c, nm))
                     u == The(ent'[x].uuid)
                 IN  \/ /\ u \in DOMAIN data'[c]
                        /\ data'[c][u] \in NewProxies
                        /\ prox'[data'[c][u]].name = nm
                     \/ \E r \in Range(last'.diff.items_removed) : prox[r].uuid = {u}]_vars

C14_Witness ==
    /\ last.op = "update"
    /\ Len(last.cs.creations) = 1
    /\ \E nm \in Range(last.diff.items_added) :
         /\ NameLess(nm, prox[last.cs.creations[1]].name)
         /\ \A u \in DOMAIN data[last.c] : prox[data[last.c][u]].name # nm
    /\ \E u \in DOMAIN data[last.c] : data[last.c][u] = last.cs.creations[1]

\* C15: after update(), every proxy of diff.items_removed whose uuid was a key
\* of the snapshot has its uuid in neither the snapshot nor the two maps of the
\* proxy state, and Changeset.removals has one entry per removed proxy.
C15_RemovedEverywhere ==
    [][last'.op = "update" =>
        LET c == last'.c
            removed == last'.diff.items_removed
        IN  /\ Len(last'.cs.removals) = Len(removed)
            /\ \A i \in 1..Len(removed) :
                 LET p == removed[i]
                     u == The(prox[p].uuid)
                 IN  /\ last'.cs.removals[i] = <<u, prox[p].coll, p>>
                     /\ u \in DOMAIN data[c] =>
                          /\ u \notin DOMAIN data'[c]
                          /\ u \notin DOMAIN datablocks'
                          /\ u \notin DOMAIN proxies']_vars

\* the cached name of the proxy of entry i of the renames rs when the entry is
\* processed: the new name of the last earlier entry of the same proxy, or the
\* name the proxy had before the call
NameBefore(px, rs, i) ==
    LET js == {j \in 1..(i - 1) : rs[j][1] = rs[i][1]} IN
    IF js = {} THEN px[rs[i][1]].name ELSE rs[Max(js)][2]

\* C16: the entry i of Changeset.renames is (uuid, old name, new name, label)
\* for the entry i of diff.items_renamed, the old name being the proxy's cached
\* name when the entry is processed; afterwards the proxy's cached name is the
\* new name of its last entry. An entry whose datablock under the new name is
\* not the one registered for the uuid is recorded like the others.
C16_RenamesRecorded ==
    [][last'.op = "update" =>
        LET rs == last'.diff.items_renamed
            out == last'.cs.renames
        IN  /\ Len(out) <= Len(rs)
            /\ ~last'.raised => Len(out) = Len(rs)
            /\ \A i \in 1..Len(out) :
                 LET p == rs[i][1] IN
                 /\ out[i] = <<The(prox[p].uuid), NameBefore(prox, rs, i), rs[i][2], p>>
                 /\ {j \in (i + 1)..Len(out) : rs[j][1] = p} = {} => prox'[p].name = rs[i][2]]_vars

C16_Witness ==
    /\ last.op = "update" /\ ~last.raised
    /\ \E i \in 1..Len(last.cs.renames) :
         LET r == last.cs.renames[i] IN
         /\ CollGet(ent, last.c, r[3]) # {datablocks[r[1]]}
         /\ prox[r[4]].name = r[3]
         /\ r[2] # r[3]

\* C17: update() returns a Changeset for every diff: no exception escapes it,
\* and every entry of diff.items_renamed is recorded in Changeset.renames.
C17_UpdateRunsToCompletion ==
    [][last'.op = "update" =>
        /\ ~last'.raised
        /\ Len(last'.cs.renames) = Len(last'.diff.items_renamed)]_vars

\* every live datablock of c is tracked and registered: it has a uuid of its
\* own, the snapshot has its proxy under that uuid, and the proxy state maps
\* the uuid to the datablock and to the proxy
Synced(c) ==
    /\ DOMAIN data[c] = LiveUuids(ent, c)
    /\ \A y, z \in Members(ent, c) : ent[y].uuid = ent[z].uuid => y = z
    /\ \A y \in Members(ent, c) :
         /\ ent[y].uuid # {}
         /\ LET u == The(ent[y].uuid) IN
            /\ u \in DOMAIN data[c] /\ prox[data[c][u]].uuid = {u}
            /\ u \in DOMAIN datablocks /\ datablocks[u] = y
            /\ u \in DOMAIN proxies /\ proxies[u] = data[c][u]

\* C18: the user renames a tracked datablock A, the host settling a name
\* collision by a suffix on A's name or on the other datablock's; update() with
\* the renames of the diff then returns a Changeset whose renames include one
\* of A to its live name, and afterwards every proxy of the snapshot has the
\* live name of its datablock as cached name.
C18_RenamesFollowHost ==
    [][(/\ last.op = "local_rename" /\ last'.op = "update" /\ last'.exact
        /\ ent[last.x].coll = last'.c
        /\ Synced(last'.c)
        /\ prox[data[last'.c][The(ent[last.x].uuid)]].name # ent[last.x].name) =>
        LET c == last'.c
            A == last.x
        IN  /\ ~last'.raised
            /\ \E i \in 1..Len(last'.cs.renames) :
                 /\ last'.cs.renames[i][1] = The(ent[A].uuid)
                 /\ last'.cs.renames[i][3] = ent'[A].name
            /\ \A y \in Members(ent', c) :
                 prox'[data'[c][The(ent'[y].uuid)]].name = ent'[y].name]_vars

C18_Witness ==
    /\ last.op = "update" /\ last.exact /\ ~last.raised
    /\ Len(last.cs.renames) = 2
    /\ last.cs.renames[1][1] # last.cs.renames[2][1]
    /\ Synced(last.c)
    /\ \E y \in Members(ent, last.c) : ent[y].name.n > 0
    /\ \A y \in Members(ent, last.c) :
         prox[data[last.c][The(ent[y].uuid)]].name = ent[y].name

\* C19: Changeset.removals lists the proxies of diff.items_removed in the
\* diff's order, and Changeset.renames the entries of diff.items_renamed in the
\* diff's order.
C19_EncounterOrderKept ==
    [][last'.op = "update" =>
        LET removed == last'.diff.items_removed
            renamed == last'.diff.items_renamed
            cs == last'.cs
        IN  /\ Len(cs.removals) = Len(removed)
            /\ \A i \in 1..Len(removed) : cs.removals[i][3] = removed[i]
            /\ Len(cs.renames) <= Len(renamed)
            /\ ~last'.raised => Len(cs.renames) = Len(renamed)
            /\ \A i \in 1..Len(cs.renames) :
                 cs.renames[i][4] = renamed[i][1] /\ cs.renames[i][3] = renamed[i][2]]_vars

C19_Witness ==
    /\ last.op = "update" /\ ~last.raised
    /\ Len(last.cs.removals) = 2
    /\ last.cs.removals[1][3] > last.cs.removals[2][3]
    /\ last.diff.items_removed = <<last.cs.removals[1][3], last.cs.removals[2][3]>>


\* C20 as stated: after load(), the proxy's keys are the uuids of the members of
\* the live collection that are not None, and every value is a reference to
\* the uuid that is its key.
C20_RefLoadKeysAreMembers ==
    [][last'.op = "ref_load" =>
        /\ ~last'.raised
        /\ RKeys(rdata') = MemberUuids(ent, refcoll)
        /\ \A i \in 1..Len(rdata') : rdata'[i].uuid = rdata'[i].k]_vars

\* C20 amended: load() raises nothing, None items included; afterwards the
\* proxy's keys are the keys it had before together with the uuids of the
\* members that are not None, each key once; the value under a member's uuid is
\* a reference to that uuid with the member's name, the other values are as
\* they were, and the live collection is untouched.
C20_RefLoadAddsMembers ==
    [][last'.op = "ref_load" =>
        /\ ~last'.raised
        /\ RKeys(rdata') = RKeys(rdata) \cup MemberUuids(ent, refcoll)
        /\ \A i, j \in 1..Len(rdata') : rdata'[i].k = rdata'[j].k => i = j
        /\ \A i \in 1..Len(refcoll) :
             refcoll[i] # NoneRef =>
                LET u == The(ent[refcoll[i]].uuid) IN
                /\ RefOf(rdata', u).uuid = u
                /\ \E j \in 1..Len(refcoll) :
                      /\ refcoll[j] # NoneRef /\ ent[refcoll[j]].uuid = {u}
                      /\ RefOf(rdata', u).name = ent[refcoll[j]].name
        /\ \A k \in RKeys(rdata) \ MemberUuids(ent, refcoll) : RefOf(rdata', k) = RefOf(rdata, k)
        /\ UNCHANGED <<refcoll, ent, datablocks, proxies, data>>]_vars

C20_Witness ==
    /\ last.op = "ref_load" /\ ~last.raised
    /\ \E i, j \in 1..Len(refcoll) : refcoll[i] = NoneRef /\ refcoll[j] # NoneRef
    /\ RKeys(rdata) = MemberUuids(ent, refcoll)
    /\ \A i \in 1..Len(rdata) : rdata[i].uuid = rdata[i].k /\ rdata[i].name # NoName

\* ------------------------------------------------------------------ C21
\* the actions deferred for uuid u in the unresolved references d
PendingIn(d, u) == IF u \in DOMAIN d THEN Range(d[u]) ELSE {}
\* the stored references whose target is registered, and those among them
\* whose datablock the host has destroyed
ResolvedRefs == {i \in 1..Len(rdata) : rdata[i].uuid \in DOMAIN datablocks}
DanglingRefs == {i \in ResolvedRefs : ent[datablocks[rdata[i].uuid]].st # "live"}
SaveRuns == last'.op = "ref_save" /\ last'.present /\ rdata # <<>>

RefOps == {"ref_load", "ref_save", "ref_apply", "ref_diff", "ref_apply_diff", "ref_apply_fresh"}

\* C22 as stated: load(), save(), apply() and diff() of the reference
\* collection proxy leave the datablocks of the bpy.data collections and both
\* maps of the proxy state as they are, and change nothing but the members of
\* the live reference collection and the entries of a reference proxy.
C22_OnlyMembersAndEntriesChange ==
    [][last'.op \in RefOps =>
        UNCHANGED <<ent, prox, data, datablocks, proxies, unresolved, fired>>]_vars

\* C22 amended: these calls leave the datablocks of the bpy.data collections,
\* their proxies and both maps of the proxy state as they are. diff() changes
\* nothing at all and load() nothing but the proxy's entries; apply() changes
\* the proxy's entries and, to_blender, the members of the live collection;
\* save() changes the members of the live collection and the unresolved
\* references, where it only adds deferred actions that have not run.
C22_RefOpsKeepDatablocks ==
    [][last'.op \in RefOps =>
        /\ UNCHANGED <<ent, prox, data, datablocks, proxies, fired>>
        /\ last'.op # "ref_save" => UNCHANGED unresolved
        /\ last'.op = "ref_save" =>
              /\ \A u \in Uuids : PendingIn(unresolved, u) \subseteq PendingIn(unresolved', u)
              /\ UNCHANGED <<rdata, peer>>
        /\ last'.op = "ref_diff" => UNCHANGED <<refcoll, rdata, peer>>
        /\ last'.op = "ref_load" => UNCHANGED <<refcoll, peer>>
        /\ last'.op = "ref_apply_diff" => UNCHANGED <<refcoll, peer>>
        /\ last'.op = "ref_apply_fresh" => UNCHANGED <<refcoll, rdata>>
        /\ last'.op = "ref_apply" =>
              /\ UNCHANGED peer
              /\ ~last'.to_blender => UNCHANGED refcoll]_vars

C22_Witness ==
    /\ last.op = "ref_apply" /\ last.to_blender
    /\ last.ds[1].tag = "del"
    /\ last.ds[1].uuid \in DOMAIN datablocks
    /\ ent[datablocks[last.ds[1].uuid]].st = "live"
    /\ datablocks[last.ds[1].uuid] \notin Range(refcoll)
    /\ last.ds[1].k \notin RKeys(rdata)
    /\ DOMAIN unresolved # {}

\* ------------------------------------------------------------------ C23
\* C23: when apply() to_blender has just stored an addition for a uuid that is
\* not registered, and the create_datablock of that uuid follows and succeeds,
\* the created datablock is a member of the live reference collection.
C23_AdditionLinkedAtCreate ==
    [][(/\ last.op = "ref_apply" /\ last.to_blender
        /\ last'.op = "create" /\ last'.ret # {}
        /\ last'.u \notin DOMAIN datablocks
        /\ \E i \in 1..Len(last.ds) :
              last.ds[i].tag = "add" /\ last.ds[i].ref /\ last.ds[i].uuid = last'.u)
       => The(last'.ret) \in Range(refcoll')]_vars

\* ------------------------------------------------------------------ C24
\* apply() to_blender of a delta that holds one deletion of a reference
OneDeletion ==
    /\ last'.op = "ref_apply" /\ last'.to_blender
    /\ Len(last'.ds) = 1
    /\ last'.ds[1].tag = "del" /\ last'.ds[1].ref

\* C24 as stated: apply() to_blender of a deletion for uuid I unlinks the
\* datablock registered for I, and leaves the live collection alone when none
\* is registered; either way the key is not in the proxy afterwards.
C24_DeletionRemovesKey ==
    [][OneDeletion =>
        LET d == last'.ds[1] IN
        /\ d.uuid \in DOMAIN datablocks => datablocks[d.uuid] \notin Range(refcoll')
        /\ d.uuid \notin DOMAIN datablocks => refcoll' = refcoll
        /\ d.k \notin RKeys(rdata')]_vars

\* C24 amended: when a datablock is registered for I, it is live and the
\* collection is a link collection, the datablock is unlinked, the other
\* members stay and the key is removed from the proxy; when none is
\* registered the live collection is untouched and the key is removed from
\* the proxy; when the registered datablock was destroyed, or the collection
\* has no unlink(), the host raises, apply() catches it, and the live
\* collection and the proxy, the key included, are as they were. The proxy's
\* other entries are never touched.
C24_DeletionRemovesKeyUnlessHostRaises ==
    [][OneDeletion =>
        LET d == last'.ds[1]
            x == DictGet(datablocks, d.uuid)
            fails == x # {} /\ (refkind # "link" \/ ent[The(x)].st # "live")
        IN  /\ (x # {} /\ ~fails) =>
                  /\ refcoll' = RemoveMember(refcoll, The(x))
                  /\ rdata' = RDel(rdata, d.k)
            /\ x = {} => refcoll' = refcoll /\ rdata' = RDel(rdata, d.k)
            /\ fails => refcoll' = refcoll /\ rdata' = rdata]_vars

C24_Witness ==
    /\ last.op = "ref_apply" /\ last.to_blender /\ Len(last.ds) = 1
    /\ last.ds[1].tag = "del" /\ last.ds[1].ref
    /\ last.ds[1].uuid \in DOMAIN datablocks
    /\ ent[datablocks[last.ds[1].uuid]].st = "live"
    /\ refkind = "link"
    /\ datablocks[last.ds[1].uuid] \notin Range(refcoll)
    /\ last.ds[1].k \notin RKeys(rdata)
    /\ rdata # <<>>
    /\ ops >= 4

\* ------------------------------------------------------------------ C25
\* the entry under key k is the same in the proxies rd1 and rd2
SameEntry(rd1, rd2, k) ==
    /\ k \in RKeys(rd1) <=> k \in RKeys(rd2)
    /\ k \in RKeys(rd1) => RefOf(rd1, k) = RefOf(rd2, k)

\* C25: apply() completes whatever its member deltas do. A member delta whose
\* processing raises (the host's link or unlink fails, or a deletion finds no
\* entry under its key) leaves the proxy's entry under its key as it was;
\* every other addition is stored in the proxy and, to_blender with a
\* registered datablock, linked; every other deletion is removed from the
\* proxy and, to_blender with a registered datablock, unlinked; a delta of
\* another class or value is ignored.
C25_MemberExceptionsCaught ==
    [][last'.op = "ref_apply" =>
        \A i \in 1..Len(last'.ds) :
            LET d == last'.ds[i]
                x == DictGet(datablocks, d.uuid)
                hostFails == /\ last'.to_blender /\ x # {}
                             /\ (refkind # "link" \/ ent[The(x)].st # "live")
                noKey == d.tag = "del" /\ d.k \notin RKeys(rdata)
            IN  IF d.tag \notin {"add", "del"} \/ ~d.ref \/ hostFails \/ noKey
                THEN SameEntry(rdata, rdata', d.k)
                ELSE IF d.tag = "add"
                THEN /\ d.k \in RKeys(rdata')
                     /\ RefOf(rdata', d.k) = RefProxy(d.k, d.uuid, d.name)
                     /\ (last'.to_blender /\ x # {}) => The(x) \in Range(refcoll')
                ELSE /\ d.k \notin RKeys(rdata')
                     /\ (last'.to_blender /\ x # {}) => The(x) \notin Range(refcoll')]_vars

C25_Witness ==
    /\ last.op = "ref_apply" /\ last.to_blender /\ Len(last.ds) = 2
    /\ last.ds[1].tag = "add" /\ last.ds[1].ref
    /\ last.ds[1].uuid \in DOMAIN datablocks
    /\ ent[datablocks[last.ds[1].uuid]].st # "live"
    /\ last.ds[1].k \notin RKeys(rdata)
    /\ last.ds[2].tag = "add" /\ last.ds[2].ref
    /\ last.ds[2].k \in RKeys(rdata)

\* ------------------------------------------------------------------ C26
\* the entries of the delta that diff() returned, none when it returned None
Returned(l) == IF l.ret = {} THEN <<>> ELSE The(l.ret)
KeysTagged(ds, tag) == {ds[i].k : i \in {j \in 1..Len(ds) : ds[j].tag = tag}}

\* C26: the delta diff() returns has each key once; its additions are the
\* uuids of the live members that are not keys of the proxy, each wrapping a
\* reference to that member; its deletions are the keys of the proxy that are
\* not uuids of live members, each wrapping the value the proxy stores under
\* the key; its other entries are updates, for the keys in both whose member
\* differs from its reference; diff() changes nothing.
C26_DiffIsSetDifference ==
    [][last'.op = "ref_diff" =>
        LET ds == Returned(last')
            live == MemberUuids(ent, refcoll)
        IN  /\ \A i, j \in 1..Len(ds) : ds[i].k = ds[j].k => i = j
            /\ \A i \in 1..Len(ds) : ds[i].tag \in {"add", "del", "upd"} /\ ds[i].ref
            /\ KeysTagged(ds, "add") = live \ RKeys(rdata)
            /\ KeysTagged(ds, "del") = RKeys(rdata) \ live
            /\ KeysTagged(ds, "upd") = last'.changed
            /\ last'.changed \subseteq live \cap RKeys(rdata)
            /\ \A i \in 1..Len(ds) :
                  /\ ds[i].tag = "add" =>
                        /\ ds[i].uuid = ds[i].k
                        /\ \E m \in 1..Len(refcoll) :
                              /\ ent[refcoll[m]].uuid = {ds[i].k}
                              /\ ent[refcoll[m]].name = ds[i].name
                  /\ ds[i].tag = "del" =>
                        /\ ds[i].uuid = RefOf(rdata, ds[i].k).uuid
                        /\ ds[i].name = RefOf(rdata, ds[i].k).name
            /\ UNCHANGED <<rdata, refcoll, peer, ent, prox, data, datablocks, proxies,
                           unresolved, fired>>]_vars

C26_Witness ==
    /\ last.op = "ref_diff" /\ last.ret # {}
    /\ KeysTagged(Returned(last), "add") # {}
    /\ KeysTagged(Returned(last), "del") # {}
    /\ KeysTagged(Returned(last), "add") = MemberUuids(ent, refcoll) \ RKeys(rdata)
    /\ KeysTagged(Returned(last), "del") = RKeys(rdata) \ MemberUuids(ent, refcoll)

\* ------------------------------------------------------------------ C27
\* C27: diff() returns None exactly when the uuids of the live members are the
\* keys of the proxy and no member differs from its reference; the delta it
\* returns otherwise has at least one entry.
C27_NoneIffNoChange ==
    [][last'.op = "ref_diff" =>
        /\ last'.ret = {} <=>
              (MemberUuids(ent, refcoll) = RKeys(rdata) /\ last'.changed = {})
        /\ \A ds \in last'.ret : Len(ds) > 0]_vars

C27_Witness ==
    /\ last.op = "ref_diff" /\ last.ret = {}
    /\ rdata # <<>>
    /\ MemberUuids(ent, refcoll) = RKeys(rdata)

\* ------------------------------------------------------------------ C28
\* C28: once diff() has been computed against the live collection and the
\* delta it returned, if any, has been applied to the proxy, the keys of the
\* proxy are the uuids of the members of the live collection.
C28_DiffThenApplyConverges ==
    (last.op = "ref_apply_diff" \/ (last.op = "ref_diff" /\ last.ret = {}))
        => RKeys(rdata) = MemberUuids(ent, refcoll)

C28_Witness ==
    /\ last.op = "ref_apply_diff"
    /\ KeysTagged(last.ds, "add") # {}
    /\ KeysTagged(last.ds, "del") # {}
    /\ RKeys(rdata) = MemberUuids(ent, refcoll)
    /\ KeysTagged(last.ds, "add") \subseteq RKeys(rdata)
    /\ KeysTagged(last.ds, "del") \cap RKeys(rdata) = {}

\* ------------------------------------------------------------------ C29
\* the delta that diff() returned in the last call is given to a new proxy,
\* the live collection having one member that the proxy has no key for, the
\* proxy one key that is no member's uuid, and no member in both differing
\* from its reference
OneNewOneRemoved ==
    /\ last.op = "ref_diff" /\ last'.op = "ref_apply_fresh"
    /\ Cardinality(MemberUuids(ent, refcoll) \ RKeys(rdata)) = 1
    /\ Cardinality(RKeys(rdata) \ MemberUuids(ent, refcoll)) = 1
    /\ last.changed = {}

\* C29 as stated: the delta has two entries, an addition and a deletion, and
\* the keys of a new proxy it is applied to are the uuids of the members of
\* the live collection.
C29_FreshProxyGetsLiveSet ==
    [][OneNewOneRemoved =>
        /\ Len(last'.ds) = 2
        /\ Cardinality(KeysTagged(last'.ds, "add")) = 1
        /\ Cardinality(KeysTagged(last'.ds, "del")) = 1
        /\ RKeys(peer') = MemberUuids(ent, refcoll)]_vars

\* C29 amended: the delta has two entries, the addition of the new member and
\* the deletion of the removed one, and the new proxy it is applied to has one
\* key, the uuid of the new member: the uuids of the live members when the
\* live collection and the diffed proxy have no member in common, and not
\* otherwise. The diffed proxy and the live collection are as they were.
C29_FreshProxyGetsNewMember ==
    [][OneNewOneRemoved =>
        /\ Len(last'.ds) = 2
        /\ KeysTagged(last'.ds, "add") = MemberUuids(ent, refcoll) \ RKeys(rdata)
        /\ KeysTagged(last'.ds, "del") = RKeys(rdata) \ MemberUuids(ent, refcoll)
        /\ RKeys(peer') = MemberUuids(ent, refcoll) \ RKeys(rdata)
        /\ RKeys(peer') = MemberUuids(ent, refcoll)
              <=> MemberUuids(ent, refcoll) \cap RKeys(rdata) = {}
        /\ UNCHANGED <<rdata, refcoll>>]_vars

C29_Witness ==
    /\ last.op = "ref_apply_fresh" /\ Len(last.ds) = 2
    /\ Cardinality(KeysTagged(last.ds, "add")) = 1
    /\ Cardinality(KeysTagged(last.ds, "del")) = 1
    /\ RKeys(peer) = KeysTagged(last.ds, "add")
    /\ RKeys(peer) = MemberUuids(ent, refcoll)
    /\ RKeys(rdata) = KeysTagged(last.ds, "del")

C31_SaveNoOp ==
    [][/\ (last'.op = "save" /\ (~last'.present \/ DOMAIN data[last'.c] = {})) =>
            /\ ~last'.raised
            /\ UNCHANGED <<ent, refcoll, nlinks, datablocks, proxies, unresolved, fired,
                           data, prox, rdata, peer, nseq>>
       /\ (last'.op = "ref_save" /\ (~last'.present \/ rdata = <<>>)) =>
            /\ ~last'.raised
            /\ UNCHANGED <<ent, refcoll, nlinks, datablocks, proxies, unresolved, fired,
                           data, prox, rdata, peer, nseq>>]_vars

C31_Witness ==
    /\ last.op = "save" /\ ~last.present /\ ~last.empty
    /\ \E u \in DOMAIN data[last.c] \cap DOMAIN datablocks :
          /\ ent[datablocks[u]].st = "live"
          /\ ent[datablocks[u]].name # prox[data[last.c][u]].name

\* the links of a node tree: the user's edits, the deltas of a peer, load()
\* and diff()
NextLinks ==
    \/ LocalNodeLink
    \/ LocalNodeUnlink
    \/ LinksApply(1)
    \/ LinksLoad
    \/ LinksDiff
    \/ LinksApplyDiff

SpecLinks == InitRefApply /\ [][NextLinks]_vars

\* load() followed by save(), in a session that works on the links of the
\* node tree or on the reference collection
NoLinksYet == nlinks = <<>> /\ nseq = <<>>
NoRefsYet == rdata = <<>> /\ refcoll = <<>> /\ datablocks = EmptyDict

NextRoundTrip ==
    \/ NoRefsYet /\ LocalNodeLink
    \/ NoRefsYet /\ LinksLoad
    \/ NoRefsYet /\ LinksSave
    \/ NoLinksYet /\ CreateDatablock(Objects, {"A"})
    \/ NoLinksYet /\ LocalLink
    \/ NoLinksYet /\ RefApply(1, {"add"}, {TRUE})
    \/ NoLinksYet /\ RefLoad
    \/ NoLinksYet /\ RefSaveEmpty

SpecRoundTrip == InitRefSync /\ [][NextRoundTrip]_vars

\* deltas of a peer with members of every Delta class, wrapping reference
\* proxies or other values
NextIgnore ==
    \/ CreateDatablock(Objects, {"A"})
    \/ RefApply(MaxDeltas, {"add", "upd"}, {TRUE})
    \/ RefApply(MaxDeltas, {"add"}, BOOLEAN)
    \/ RefApply(1, {"del"}, BOOLEAN)

SpecIgnore == InitRefApply /\ [][NextIgnore]_vars

\* the commands of a peer and update(), with diffs that may list stale
\* entries, on the bpy.data.objects proxy; load() is not called
NextRegistry ==
    \/ LocalCreate(Objects, {"A"}, {FALSE})
    \/ LocalRemove
    \/ LocalRename
    \/ CreateDatablock(Objects, {"A"})
    \/ UpdateDatablock
    \/ RemoveDatablock
    \/ RenameDatablock
    \/ Update(Objects, TRUE)

SpecRegistry == InitSync /\ [][NextRegistry]_vars

\* update() with removals of proxies that the snapshot or the proxy state do
\* not hold: after remove_datablock, after load(), or listed twice
NextRemovals ==
    \/ LocalCreate(Objects, {"A"}, {FALSE})
    \/ LocalRemove
    \/ Load(Objects)
    \/ CreateDatablock(Objects, {"A"})
    \/ RemoveDatablock
    \/ Update(Objects, TRUE)

SpecRemovals == InitReload /\ [][NextRemovals]_vars

\* a pointer to a datablock, set by the user and by the deltas of a peer
NextPointer ==
    \/ CreateDatablock(Objects, {"A"})
    \/ LocalRemove
    \/ LocalPoint
    \/ PointerApply

SpecPointer == InitRefApply /\ [][NextPointer]_vars

\* ------------------------------------------------------------------ scenes
\* A session joined with the scene that clear_scene_content() could not remove
\* still there, and room for MaxEnts scenes besides it.
SceneEnts == 1..(MaxEnts + 1)

InitScenes ==
    /\ ent = [x \in SceneEnts |->
                IF x = 1
                THEN [st |-> "live", name |-> PlaceholderName, uuid |-> {},
                      coll |-> "scenes", skip |-> FALSE]
                ELSE FreeEnt]
    /\ prox = [p \in Pxs |-> FreePx]
    /\ data = [c \in Colls |-> EmptyDict]
    /\ datablocks = EmptyDict
    /\ proxies = EmptyDict
    /\ unresolved = EmptyDict
    /\ fired = [a \in Acts |-> <<>>]
    /\ refcoll = <<>>
    /\ refkind \in RefKinds
    /\ rdata = <<>>
    /\ peer = <<>>
    /\ nseq = <<>>
    /\ nlinks = <<>>
    /\ camera = {}
    /\ last = [op |-> "init"]
    /\ mirror = [c \in Colls |-> TRUE]
    /\ ops = 0
    /\ budget = MaxOps

NextScenes ==
    \/ LocalCreate({"scenes"}, BaseNames, {FALSE})
    \/ LocalRemove
    \/ CreateDatablock({"scenes"}, BaseNames)

SpecScenes == InitScenes /\ [][NextScenes]_vars

\* ------------------------------------------------------------------ C32
\* C32: a load() that follows a load() of the same collection, nothing having
\* happened in between, leaves the snapshot with the keys it had, and every
\* datablock with the uuid it had.
C32_LoadTwiceIsLoadOnce ==
    [][(last.op = "load" /\ last'.op = "load" /\ last'.c = last.c) =>
        /\ DOMAIN data'[last.c] = DOMAIN data[last.c]
        /\ \A x \in Ents : ent'[x].uuid = ent[x].uuid
        /\ \A u \in DOMAIN data'[last.c] : prox'[data'[last.c][u]].uuid = {u}]_vars

C32_Witness ==
    /\ last.op = "load"
    /\ \E p, q \in Pxs :
          /\ p # q /\ prox[p].used /\ prox[q].used
          /\ prox[p].uuid = prox[q].uuid /\ prox[p].uuid # {}
          /\ DOMAIN data[last.c] = prox[p].uuid
          /\ \E x \in Members(ent, last.c) : ent[x].uuid = prox[p].uuid

\* ------------------------------------------------------------------ C33
\* C33: a create_datablock that creates a scene while the scene named
\* "_mixer_to_be_removed_" is in bpy.data.scenes leaves bpy.data.scenes without
\* that scene, however many other scenes there are.
C33_PlaceholderRemoved ==
    [][(/\ last'.op = "create" /\ last'.c = "scenes" /\ last'.ret # {}
        /\ CollGet(ent, "scenes", PlaceholderName) # {}) =>
            CollGet(ent', "scenes", PlaceholderName) = {}]_vars

\* ------------------------------------------------------------------ C34
\* every reference of the proxy has a target, a datablock that is there
AllResolved ==
    \A i \in 1..Len(rdata) :
        /\ RefTarget(State, rdata[i]) # {}
        /\ ent[The(RefTarget(State, rdata[i]))].st = "live"

Taken(d) == d.tag \in {"add", "del"} /\ d.ref

\* C35: apply() leaves as they were the proxy's entry and the live membership
\* of every member whose delta is not an addition or a deletion, or wraps no
\* reference proxy, and does to the proxy and to the live collection what it
\* does when given the other member deltas alone.
C35_OtherDeltasIgnored ==
    [][last'.op = "ref_apply" =>
        LET ds == last'.ds
            r == RefCollApply(State, refkind, SelectSeq(ds, Taken), last'.to_blender)
        IN  /\ rdata' = r.rdata
            /\ refcoll' = r.refcoll
            /\ \A i \in 1..Len(ds) : ~Taken(ds[i]) =>
                  /\ SameEntry(rdata, rdata', ds[i].k)
                  /\ \A x \in DictGet(datablocks, ds[i].uuid) :
                        x \in Range(refcoll') <=> x \in Range(refcoll)]_vars

C35_Witness ==
    /\ last.op = "ref_apply" /\ last.to_blender /\ Len(last.ds) = 2
    /\ refkind = "link"
    /\ ~Taken(last.ds[1]) /\ last.ds[1].ref
    /\ last.ds[1].uuid \in DOMAIN datablocks
    /\ ent[datablocks[last.ds[1].uuid]].st = "live"
    /\ datablocks[last.ds[1].uuid] \notin Range(refcoll)
    /\ last.ds[1].k \notin RKeys(rdata)
    /\ last.ds[2].tag = "add" /\ last.ds[2].ref
    /\ last.ds[2].uuid \in DOMAIN datablocks
    /\ datablocks[last.ds[2].uuid] \in Range(refcoll)
    /\ last.ds[2].k \in RKeys(rdata)

\* ------------------------------------------------------------------ C36
\* C36: apply() with to_blender false changes nothing but the proxy: the live
\* collection, the datablocks, the proxy state and the deferred actions are as
\* before; the keys of the proxy are then the keys it had and the keys of the
\* additions, without the keys of the deletions (the deltas being those that
\* wrap a reference proxy).
C36_ProxyOnlyApply ==
    [][(last'.op = "ref_apply" /\ ~last'.to_blender) =>
        LET ds == SelectSeq(last'.ds, Taken) IN
        /\ UNCHANGED <<ent, refcoll, nlinks, datablocks, proxies, unresolved, fired,
                       data, prox, nseq>>
        /\ RKeys(rdata') = (RKeys(rdata) \cup KeysTagged(ds, "add"))
                              \ (KeysTagged(ds, "del") \cap RKeys(rdata))]_vars

C36_Witness ==
    /\ last.op = "ref_apply" /\ ~last.to_blender /\ Len(last.ds) = 2
    /\ refkind = "link"
    /\ last.ds[1].tag = "del" /\ last.ds[1].ref
    /\ last.ds[1].uuid \in DOMAIN datablocks
    /\ datablocks[last.ds[1].uuid] \in Range(refcoll)
    /\ last.ds[1].k \notin RKeys(rdata)
    /\ last.ds[2].tag = "add" /\ last.ds[2].ref
    /\ last.ds[2].k \in RKeys(rdata)
    /\ last.ds[2].k \notin MemberUuids(ent, refcoll)

BeforeRemovals(l) ==
    UpdateAdds([s |-> State, cs |-> EmptyChangeset, raised |-> FALSE],
               l.c, added_names(l.diff), l.failing).s
\* the entry under u is the same in the dicts d1 and d2
SameKey(d1, d2, u) ==
    /\ u \in DOMAIN d1 <=> u \in DOMAIN d2
    /\ u \in DOMAIN d1 => d1[u] = d2[u]

\* C38: update() reports in changeset.removals every proxy of
\* diff.items_removed, in the order of the diff, whether its deletions
\* succeed or not; when the uuid is not a key of the snapshot, the proxy state
\* keeps what it holds for the uuid; when it is not a key of
\* proxy_state.datablocks, the snapshot entry is deleted and the entry of
\* proxy_state.proxies is kept; when it is not a key of proxy_state.proxies,
\* the snapshot entry is deleted and the entry of proxy_state.datablocks is kept.
C38_RemovalsReportedFirst ==
    [][last'.op = "update" =>
        LET removed == last'.diff.items_removed
            c == last'.c
            s == BeforeRemovals(last')
        IN  /\ last'.cs.removals =
                  [i \in 1..Len(removed) |->
                      <<The(prox[removed[i]].uuid), prox[removed[i]].coll, removed[i]>>]
            /\ \A i \in 1..Len(removed) :
                  LET u == The(prox[removed[i]].uuid) IN
                  (\A j \in 1..Len(removed) : prox[removed[j]].uuid = {u} => j = i) =>
                      /\ u \notin DOMAIN s.data[c] =>
                            /\ SameKey(s.proxies, proxies', u)
                            /\ SameKey(s.datablocks, datablocks', u)
                      /\ (u \in DOMAIN s.data[c] /\ u \notin DOMAIN s.datablocks) =>
                            /\ u \notin DOMAIN data'[c]
                            /\ SameKey(s.proxies, proxies', u)
                      /\ (/\ u \in DOMAIN s.data[c] /\ u \in DOMAIN s.datablocks
                          /\ u \notin DOMAIN s.proxies) =>
                            /\ u \notin DOMAIN data'[c]
                            /\ SameKey(s.datablocks, datablocks', u)]_vars

C38_Witness ==
    /\ last.op = "update"
    /\ \E i \in 1..Len(last.cs.removals) :
          LET u == last.cs.removals[i][1] IN
          /\ u \notin DOMAIN data[last.c]
          /\ u \in DOMAIN proxies /\ u \in DOMAIN datablocks
          /\ proxies[u] = last.cs.removals[i][3]

\* ------------------------------------------------------------------ C39
\* the item of a links proxy names the nodes and the sockets of the link
ItemIsLink(item, link) ==
    /\ item.from_node = link.from_node /\ item.to_node = link.to_node
    /\ item.from_socket \in Sockets /\ item.to_socket \in Sockets
    /\ SocketAt(outputs(link.from_node), item.from_socket) = link.from_socket
    /\ SocketAt(inputs(link.to_node), item.to_socket) = link.to_socket
\* the sequence of the proxy lists the live links, in their order
SequenceIsLinks(sq, links) ==
    /\ Len(sq) = Len(links)
    /\ \A i \in 1..Len(sq) : ItemIsLink(sq[i], links[i])

\* C39: NodeLinksProxy.diff returns None exactly when the sequence of the
\* proxy lists the live links in their order, and otherwise a DeltaUpdate
\* whose proxy lists all the live links in their order; it changes nothing.
\* Once that DeltaUpdate is applied to the proxy, the live links are the same
\* and diff returns None.
C39_LinksDiffIsComplete ==
    [][/\ last'.op = "links_diff" =>
            /\ last'.ret = {} <=> SequenceIsLinks(nseq, nlinks)
            /\ \A d \in last'.ret : d.tag = "upd" /\ SequenceIsLinks(d.sq, nlinks)
            /\ nseq' = nseq /\ nlinks' = nlinks
       /\ last'.op = "links_apply_diff" =>
            /\ ~last'.raised
            /\ nlinks' = nlinks
            /\ SequenceIsLinks(nseq', nlinks')
            /\ NodeLinksDiff([nseq |-> nseq', nlinks |-> nlinks']) = {}]_vars

C39_Witness ==
    /\ last.op = "links_apply_diff" /\ last.to_blender /\ last.isTree
    /\ nlinks # <<>>
    /\ nseq = last.sq

\* ------------------------------------------------------------------ C40
\* C40 as stated: NonePtrProxy.apply given a reference proxy returns it and,
\* with to_blender, sets the pointer to the datablock registered for its
\* uuid, or to None when there is none, and defers nothing; given another
\* value it returns None and leaves the pointer as it is.
C40_PointerSet ==
    [][last'.op = "pointer_apply" =>
        /\ unresolved' = unresolved /\ fired' = fired
        /\ IF last'.isRef
           THEN /\ ~last'.raised
                /\ last'.ret = {last'.value}
                /\ camera' = IF last'.to_blender
                             THEN DictGet(datablocks, last'.value.uuid) ELSE camera
           ELSE /\ ~last'.raised /\ last'.ret = {} /\ camera' = camera]_vars

\* C40, amended: that is what the call does when the host takes the
\* assignment; when the attribute is read-only or the registered datablock
\* was destroyed, setattr raises, the exception leaves apply(), and the
\* pointer is as it was.
C40_PointerSetUnlessHostRaises ==
    [][last'.op = "pointer_apply" =>
        LET d == DictGet(datablocks, last'.value.uuid)
            refused == /\ last'.isRef /\ last'.to_blender
                       /\ (~last'.writable \/ (d # {} /\ ent[The(d)].st # "live"))
        IN  /\ unresolved' = unresolved /\ fired' = fired
            /\ ent' = ent /\ datablocks' = datablocks /\ proxies' = proxies
            /\ IF refused
               THEN last'.raised /\ last'.ret = {} /\ camera' = camera
               ELSE IF last'.isRef
               THEN /\ ~last'.raised
                    /\ last'.ret = {last'.value}
                    /\ camera' = IF last'.to_blender THEN d ELSE camera
               ELSE /\ ~last'.raised /\ last'.ret = {} /\ camera' = camera]_vars

C40_Witness ==
    /\ last.op = "pointer_apply" /\ last.isRef /\ last.to_blender /\ ~last.raised
    /\ last.value.uuid \in DOMAIN datablocks
    /\ camera = {datablocks[last.value.uuid]}
    /\ \E x \in DOMAIN ent : ent[x].st = "live" /\ x \notin camera

====
